---- MODULE Spec2Model ----
(***************************************************************************)
(* A model of the live-data-stream service: the Poller (app/poller.py),    *)
(* the ESPNFetcher's listing filter (app/fetcher.py), the SupabaseStore    *)
(* upsert (app/supabase_client.py) and the transformer                     *)
(* (app/transformer.py).                                                   *)
(*                                                                         *)
(* JSON objects are records; a key that a document lacks is a field the    *)
(* record lacks, so dict.get(k, default) is Get(d, k, default).  JSON      *)
(* arrays are sequences.  A textual score is a sequence of one-character   *)
(* strings so that int() can be modelled digit by digit.  A raised         *)
(* exception is a record with the single field "error".  The wall-clock    *)
(* timestamp of a ToonPayload is left out of the payload record.           *)
(***************************************************************************)
EXTENDS Integers, Sequences, FiniteSets, TLC

VARIABLES
    \* ---- Poller fields (poller.py:25-32)
    running,                \* self._running
    task,                   \* self._task: a task id, or NoTask
    lock,                   \* self._lock: the task holding it, or NoTask
    consecutive_failures,   \* self._consecutive_failures
    latest_payloads,        \* self._latest_payloads: game id -> payload
    has_store,              \* self._store is not None
    settings,               \* self._settings
    \* ---- the event loop and the collaborators
    tasks,                  \* the asyncio tasks running _poll_loop
    caller,                 \* the code calling start() / stop()
    store_rows,             \* the live_games table: game id -> payload
    threads,                \* upsert worker threads no coroutine awaits any more
    logged,                 \* the log events emitted by the last step
    stopped,                \* stop() has returned and start() was not called since
    \* ---- one call of transform_game and one of it on permuted inputs
    scoreboard_event, summary, payload,
    perm_event, perm_summary, perm_payload,
    \* ---- one call of _get_delay
    delay,
    \* ---- a reader of the latest_payloads property
    snapshot,
    \* ---- one call of extract_live_game_ids
    listing, extracted,
    \* ---- one call of handle_tool_call (mcp-server)
    tool_name, tool_arguments,
    client,                 \* what the Supabase collaborator does in this call
    client_calls,           \* the queries made on the SupabaseClient
    tool_response,
    \* ---- calls of transform_game on the same document objects
    now,                    \* datetime.now(UTC)
    documents,              \* the argument objects as the calls left them
    pure_calls              \* what each call returned

vars == << running, task, lock, consecutive_failures, latest_payloads, has_store,
           settings, tasks, caller, store_rows, threads, logged, stopped,
           scoreboard_event, summary, payload, perm_event, perm_summary,
           perm_payload, delay, snapshot, listing, extracted, tool_name,
           tool_arguments, client, client_calls, tool_response, now, documents,
           pure_calls >>

pollerVars == << running, task, lock, consecutive_failures, latest_payloads,
                 has_store, tasks, caller, store_rows, threads, logged, stopped >>

transformVars == << scoreboard_event, summary, payload, perm_event, perm_summary,
                    perm_payload >>

readerVars == << snapshot >>

fetcherVars == << listing, extracted >>

toolVars == << tool_name, tool_arguments, client, client_calls, tool_response >>

pureVars == << now, documents, pure_calls >>

otherVars == << fetcherVars, toolVars, pureVars >>

----
\* Bounds of the model.

\* the asyncio tasks start() may have created and not yet finished
MaxTasks == 2
\* the failure counter is followed up to this value
MaxFailures == 2
\* max_recent_plays ranges over 0..MaxEvents
MaxEvents == 4
\* previous drives per summary, and plays per drive
MaxSegs == 2
MaxSegLen == 2
\* competitors per scoreboard event, boxscore teams per summary
MaxSides == 3
MaxBlocks == 2
\* failure counts _get_delay is evaluated on
MaxCount == 1030
\* entries of a probability index
MaxProbs == 2

----
\* Python and JSON helpers.

\* dict.get(k, default)
Get(d, k, default) == IF k \in DOMAIN d THEN d[k] ELSE default

\* the empty dict {} (and the empty list [])
EmptyDict == << >>

\* a value that is an exception raised instead of a result
Raise(kind) == [error |-> kind]
IsError(v) == DOMAIN v = {"error"}

\* Python's min(a, b)
Min(a, b) == IF b < a THEN b ELSE a

\* list.reverse() / reversed(list)
Reverse(s) == [i \in 1..Len(s) |-> s[Len(s) + 1 - i]]

\* the slice list[:n] for n >= 0
TakeAll(s, n) == s
Take(s, n) == SubSeq(s, 1, Min(n, Len(s)))

\* sequences over S of length at most n
SeqUpTo(S, n) == UNION {[1..k -> S] : k \in 0..n}

\* the permutations of a sequence
PermutationsOf(s) ==
    { [i \in 1..Len(s) |-> s[p[i]]] :
        p \in {q \in [1..Len(s) -> 1..Len(s)] :
                 \A i, j \in 1..Len(s) : q[i] = q[j] => i = j} }

Digits == [c \in {"0", "1", "2", "3", "4", "5", "6", "7", "8", "9"} |->
             CASE c = "0" -> 0 [] c = "1" -> 1 [] c = "2" -> 2 [] c = "3" -> 3
               [] c = "4" -> 4 [] c = "5" -> 5 [] c = "6" -> 6 [] c = "7" -> 7
               [] c = "8" -> 8 [] c = "9" -> 9]

RECURSIVE DigitsValue(_, _)
DigitsValue(cs, acc) ==
    IF cs = << >> THEN acc
    ELSE DigitsValue(Tail(cs), 10 * acc + Digits[Head(cs)])

\* int(text) accepts an optional sign and at least one decimal digit
IntBody(cs) == IF cs # << >> /\ Head(cs) \in {"+", "-"} THEN Tail(cs) ELSE cs
IsIntText(cs) ==
    /\ IntBody(cs) # << >>
    /\ \A i \in 1..Len(IntBody(cs)) : IntBody(cs)[i] \in DOMAIN Digits

\* int(text): the integer, or ValueError
ParseInt(cs) ==
    IF ~IsIntText(cs) THEN Raise("ValueError")
    ELSE [value |-> IF Head(cs) = "-" THEN 0 - DigitsValue(IntBody(cs), 0)
                    ELSE DigitsValue(IntBody(cs), 0)]

----
\* app/transformer.py

STAT_KEYS ==
    { "totalYards", "netPassingYards", "rushingYards", "turnovers", "fumblesLost",
      "interceptions", "firstDowns", "thirdDownEff", "fourthDownEff",
      "totalPenaltiesYards", "possessionTime", "completionAttempts",
      "sacksYardsLost", "rushingAttempts", "passingFirstDowns",
      "rushingFirstDowns", "totalDrives" }

\* the label of a side-list entry or statistics block (None when it has none)
NoLabel == "<none>"
LabelOf(d) == Get(d, "homeAway", NoLabel)

\* _find_competitor: the first competitor whose homeAway is side
RECURSIVE FindCompetitor(_, _)
FindCompetitorByPosition(competitors, side) ==
    IF Len(competitors) < 2 THEN Raise("ValueError")
    ELSE IF side = "home" THEN competitors[1] ELSE competitors[2]
FindCompetitorOrFirst(competitors, side) ==
    LET found == {i \in 1..Len(competitors) : LabelOf(competitors[i]) = side}
    IN  IF competitors = << >> THEN Raise("ValueError")
        ELSE IF found = {} THEN competitors[1]
        ELSE competitors[CHOOSE i \in found : \A j \in found : i <= j]
FindCompetitor(competitors, side) ==
    IF competitors = << >> THEN Raise("ValueError")
    ELSE IF LabelOf(Head(competitors)) = side THEN Head(competitors)
    ELSE FindCompetitor(Tail(competitors), side)

\* _build_team_id_to_abbr: later entries overwrite earlier ones
RECURSIVE BuildTeamIdToAbbr(_, _)
BuildTeamIdToAbbrUnchecked(competitors, mapping) ==
    LET team_id(i) == Get(Get(competitors[i], "team", EmptyDict), "id", "")
        abbr(i) == Get(Get(competitors[i], "team", EmptyDict), "abbreviation", "")
        with(k) == {i \in 1..Len(competitors) : team_id(i) = k}
        last(k) == CHOOSE i \in with(k) : \A j \in with(k) : j <= i
    IN  [k \in DOMAIN mapping \cup {team_id(i) : i \in 1..Len(competitors)} |->
            IF with(k) # {} THEN abbr(last(k)) ELSE mapping[k]]
BuildTeamIdToAbbr(competitors, mapping) ==
    IF competitors = << >> THEN mapping
    ELSE LET team == Get(Head(competitors), "team", EmptyDict)
             team_id == Get(team, "id", "")
             abbr == Get(team, "abbreviation", "")
             next == IF team_id # "" /\ abbr # ""
                     THEN [k \in DOMAIN mapping \cup {team_id} |->
                             IF k = team_id THEN abbr ELSE mapping[k]]
                     ELSE mapping
         IN  BuildTeamIdToAbbr(Tail(competitors), next)

\* the inner loop of _extract_team: copy the whitelisted statistics
RECURSIVE CopyStats(_, _)
CopyStatsAll(statistics, stats) ==
    LET named(n) == {i \in 1..Len(statistics) : Get(statistics[i], "name", NoLabel) = n}
        last(n) == CHOOSE i \in named(n) : \A j \in named(n) : j <= i
    IN  [n \in DOMAIN stats \cup {Get(statistics[i], "name", NoLabel) :
                                      i \in 1..Len(statistics)} |->
            IF named(n) = {} THEN stats[n]
            ELSE Get(statistics[last(n)], "displayValue", "")]
CopyStats(statistics, stats) ==
    IF statistics = << >> THEN stats
    ELSE LET stat == Head(statistics)
             name == Get(stat, "name", NoLabel)
             next == IF name \in STAT_KEYS
                     THEN [k \in DOMAIN stats \cup {name} |->
                             IF k = name THEN Get(stat, "displayValue", "")
                             ELSE stats[k]]
                     ELSE stats
         IN  CopyStats(Tail(statistics), next)

\* the outer loop of _extract_team: the first block labelled side, then break
RECURSIVE MatchStats(_, _)
MatchStatsByPosition(boxscore_teams, side) ==
    LET i == IF side = "home" THEN 1 ELSE 2
    IN  IF Len(boxscore_teams) < i THEN EmptyDict
        ELSE CopyStats(Get(boxscore_teams[i], "statistics", << >>), EmptyDict)
MatchStats(boxscore_teams, side) ==
    IF boxscore_teams = << >> THEN EmptyDict
    ELSE IF LabelOf(Head(boxscore_teams)) = side
         THEN CopyStats(Get(Head(boxscore_teams), "statistics", << >>), EmptyDict)
         ELSE MatchStats(Tail(boxscore_teams), side)

\* _extract_team: a TeamData, or the ValueError of int()
ExtractTeam(competitor, boxscore_teams) ==
    LET team == Get(competitor, "team", EmptyDict)
        side == Get(competitor, "homeAway", "")
        stats == MatchStats(boxscore_teams, side)
        score == ParseInt(Get(competitor, "score", <<"0">>))
    IN  IF IsError(score) THEN score
        ELSE [id |-> Get(team, "id", ""),
              name |-> Get(team, "displayName", ""),
              score |-> score.value,
              stats |-> stats]

\* the loop of _extract_plays over reversed(previous), with its break
RECURSIVE WalkPrevious(_, _, _)
WalkPrevious(rev_drives, raw_plays, max_plays) ==
    IF rev_drives = << >> THEN raw_plays
    ELSE LET more == raw_plays \o Reverse(Get(Head(rev_drives), "plays", << >>))
         IN  IF Len(more) >= max_plays THEN more
             ELSE WalkPrevious(Tail(rev_drives), more, max_plays)

\* _extract_plays
ExtractPlaysPreviousFirst(summ, max_plays) ==
    LET drives == Get(summ, "drives", EmptyDict)
        current == Get(drives, "current", EmptyDict)
        raw0 == IF DOMAIN current # {} THEN Get(current, "plays", << >>) ELSE << >>
        raw_plays == WalkPrevious(Reverse(Get(drives, "previous", << >>)), << >>,
                                  max_plays) \o raw0
    IN  Reverse(Take(raw_plays, max_plays))
ExtractPlaysPadded(summ, max_plays) ==
    LET drives == Get(summ, "drives", EmptyDict)
        current == Get(drives, "current", EmptyDict)
        raw0 == IF DOMAIN current # {} THEN Get(current, "plays", << >>) ELSE << >>
        raw_plays == WalkPrevious(Reverse(Get(drives, "previous", << >>)), raw0,
                                  max_plays)
    IN  IF raw_plays = << >> THEN << EmptyDict >>
        ELSE Reverse(Take(raw_plays, max_plays))
ExtractPlays(summ, max_plays) ==
    LET drives == Get(summ, "drives", EmptyDict)
        current == Get(drives, "current", EmptyDict)
        raw0 == IF DOMAIN current # {} THEN Get(current, "plays", << >>) ELSE << >>
        raw_plays == WalkPrevious(Reverse(Get(drives, "previous", << >>)), raw0,
                                  max_plays)
    IN  Reverse(Take(raw_plays, max_plays))

\* a list object of _extract_plays: a new list, or the list of the current
\* drive's plays of the document
NewList(items) == [of |-> "new", items |-> items]
\* list.extend on a list object
Extend(list, more) == [list EXCEPT !.items = @ \o more]
\* the document once the in-place operations on a list object are done
WrittenBack(summ, list) ==
    IF list.of = "current" THEN [summ EXCEPT !.drives.current.plays = list.items]
    ELSE summ

\* the summary document after _extract_plays: raw_plays is a new list (line
\* 91) that extend() grows, and recent is a new list (the slice of line 105)
\* that reverse() reverses
ExtractPlaysEffectAliased(summ, max_plays) ==
    LET drives == Get(summ, "drives", EmptyDict)
        current == Get(drives, "current", EmptyDict)
        raw0 == IF DOMAIN current # {} /\ "plays" \in DOMAIN current
                THEN [of |-> "current", items |-> current.plays]
                ELSE NewList(<< >>)
        raw_plays == [raw0 EXCEPT !.items =
                         WalkPrevious(Reverse(Get(drives, "previous", << >>)), @,
                                      max_plays)]
        recent == NewList(Reverse(Take(raw_plays.items, max_plays)))
    IN  WrittenBack(WrittenBack(summ, raw_plays), recent)
ExtractPlaysEffect(summ, max_plays) ==
    LET drives == Get(summ, "drives", EmptyDict)
        current == Get(drives, "current", EmptyDict)
        raw0 == NewList(<< >>)
        raw1 == IF DOMAIN current # {}
                THEN Extend(raw0, Get(current, "plays", << >>)) ELSE raw0
        raw_plays == [raw1 EXCEPT !.items =
                         WalkPrevious(Reverse(Get(drives, "previous", << >>)), @,
                                      max_plays)]
        recent == NewList(Reverse(Take(raw_plays.items, max_plays)))
    IN  WrittenBack(WrittenBack(summ, raw_plays), recent)

\* _build_win_prob_lookup: playId -> homeWinPercentage, later entries overwrite
RECURSIVE BuildWinProbLookup(_, _)
BuildWinProbLookupByPosition(entries, lookup) ==
    [k \in {ToString(i) : i \in 1..Len(entries)} |->
        LET i == CHOOSE j \in 1..Len(entries) : ToString(j) = k
        IN  Get(entries[i], "homeWinPercentage", 0)]
BuildWinProbLookup(entries, lookup) ==
    IF entries = << >> THEN lookup
    ELSE LET entry == Head(entries)
             play_id == Get(entry, "playId", "")
             next == IF play_id # "" /\ "homeWinPercentage" \in DOMAIN entry
                     THEN [k \in DOMAIN lookup \cup {play_id} |->
                             IF k = play_id THEN entry.homeWinPercentage
                             ELSE lookup[k]]
                     ELSE lookup
         IN  BuildWinProbLookup(Tail(entries), next)

\* win_probability when the lookup has no entry for the play (None)
NoProbability == -1

\* _play_to_event
PlayToEvent(play, team_id_to_abbr, win_prob_lookup) ==
    LET play_id == Get(play, "id", "")
        period == Get(play, "period", EmptyDict)
        clock == Get(play, "clock", EmptyDict)
        start == Get(play, "start", EmptyDict)
        poss_team_id == Get(Get(start, "team", EmptyDict), "id", "")
    IN  [event_id |-> play_id,
         type |-> "play",
         description |-> Get(play, "text", ""),
         quarter |-> Get(period, "number", 0),
         clock |-> Get(clock, "displayValue", "0:00"),
         possession |-> Get(team_id_to_abbr, poss_team_id, ""),
         win_probability |-> Get(win_prob_lookup, play_id, NoProbability)]

\* transform_game: a ToonPayload, or the exception it raises
TransformGame(sb_event, summ, conf) ==
    IF "competitions" \notin DOMAIN sb_event THEN Raise("KeyError")
    ELSE IF sb_event.competitions = << >> THEN Raise("IndexError")
    ELSE IF "competitors" \notin DOMAIN sb_event.competitions[1]
         THEN Raise("KeyError")
    ELSE
    LET competition == sb_event.competitions[1]
        competitors == competition.competitors
        status == Get(competition, "status", EmptyDict)
        team_id_to_abbr == BuildTeamIdToAbbr(competitors, EmptyDict)
        boxscore_teams == Get(Get(summ, "boxscore", EmptyDict), "teams", << >>)
        home_comp == FindCompetitor(competitors, "home")
        away_comp == FindCompetitor(competitors, "away")
    IN  IF IsError(home_comp) THEN home_comp
        ELSE IF IsError(away_comp) THEN away_comp
        ELSE IF "id" \notin DOMAIN sb_event THEN Raise("KeyError")
        ELSE
        LET home_team == ExtractTeam(home_comp, boxscore_teams)
            away_team == ExtractTeam(away_comp, boxscore_teams)
            win_prob_lookup ==
                BuildWinProbLookup(Get(summ, "winprobability", << >>), EmptyDict)
            raw_plays == ExtractPlays(summ, conf.max_recent_plays)
        IN  IF IsError(home_team) THEN home_team
            ELSE IF IsError(away_team) THEN away_team
            ELSE [type |-> "game_update",
                  source |-> "espn_live",
                  game |-> [game_id |-> sb_event.id,
                            status |-> Get(Get(status, "type", EmptyDict),
                                           "description", ""),
                            quarter |-> Get(status, "period", 0),
                            clock |-> Get(status, "displayClock", "0:00"),
                            home_team |-> home_team,
                            away_team |-> away_team],
                  events |-> [i \in 1..Len(raw_plays) |->
                                PlayToEvent(raw_plays[i], team_id_to_abbr,
                                            win_prob_lookup)]]

----
\* The documents the model feeds to the code, after tests/conftest.py.

\* a value a variable holds before the call that sets it
NotRun == [state |-> "not run"]

DefaultSettings ==
    [poll_interval_seconds |-> 60,
     backoff_initial_seconds |-> 5,
     backoff_multiplier |-> 2,
     backoff_max_seconds |-> 300,
     live_statuses |-> {"STATUS_IN_PROGRESS", "STATUS_HALFTIME", "STATUS_END_PERIOD"},
     max_recent_plays |-> 2]

Team(id, name, abbr) == [id |-> id, displayName |-> name, abbreviation |-> abbr]

HomeKC == [homeAway |-> "home", score |-> <<"2", "1">>,
           team |-> Team("12", "Kansas City Chiefs", "KC")]
AwayPHI == [homeAway |-> "away", score |-> <<"1", "4">>,
            team |-> Team("22", "Philadelphia Eagles", "PHI")]
\* a second side labelled home, a side with no label, and sides whose score is
\* absent or not a number
HomeTA == [homeAway |-> "home", score |-> <<"7">>, team |-> Team("1", "Team A", "TA")]
Unlabelled == [score |-> <<"3">>, team |-> Team("2", "Team B", "TB")]
AwayNoScore == [homeAway |-> "away", team |-> Team("2", "Team B", "TB")]
AwayBadScore == [homeAway |-> "away", score |-> <<"x">>,
                 team |-> Team("22", "Philadelphia Eagles", "PHI")]
Competitors == {HomeKC, AwayPHI, HomeTA, Unlabelled, AwayNoScore, AwayBadScore}

\* sides whose team has no id, an empty id, no abbreviation, an empty
\* abbreviation, or that have no team; an away side with the id of HomeKC
HomeSides ==
    { HomeKC,
      [homeAway |-> "home", score |-> <<"7">>,
       team |-> [displayName |-> "Team A", abbreviation |-> "TA"]],
      [homeAway |-> "home", score |-> <<"7">>, team |-> Team("1", "Team A", "")],
      [homeAway |-> "home", score |-> <<"7">>] }
AwaySides ==
    { AwayPHI,
      [homeAway |-> "away", score |-> <<"3">>, team |-> Team("", "Team B", "TB")],
      [homeAway |-> "away", score |-> <<"3">>,
       team |-> [id |-> "22", displayName |-> "Team B"]],
      [homeAway |-> "away", score |-> <<"3">>, team |-> Team("12", "Team B", "TB")] }

Status(name, description) ==
    [period |-> 3, displayClock |-> "7:23",
     type |-> [name |-> name, description |-> description]]

Event(id, status, competitors) ==
    [id |-> id, competitions |-> << [status |-> status, competitors |-> competitors] >>]

InProgress == Status("STATUS_IN_PROGRESS", "In Progress")
Scheduled == Status("STATUS_SCHEDULED", "Scheduled")

DefaultEvent == Event("401547417", InProgress, <<HomeKC, AwayPHI>>)

Stat(name, value) == [name |-> name, displayValue |-> value]

AwayBlock == [homeAway |-> "away",
              statistics |-> << Stat("totalYards", "285"), Stat("firstDowns", "15"),
                                Stat("irrelevantStat", "999") >>]
HomeBlock == [homeAway |-> "home",
              statistics |-> << Stat("totalYards", "310"),
                                Stat("thirdDownEff", "5-10") >>]
\* a second block labelled home, a block with no label, a block with no statistics
HomeBlock2 == [homeAway |-> "home", statistics |-> << Stat("totalYards", "999") >>]
UnlabelledBlock == [statistics |-> << Stat("totalYards", "1") >>]
AwayNoStats == [homeAway |-> "away"]
Blocks == {AwayBlock, HomeBlock, HomeBlock2, UnlabelledBlock, AwayNoStats}

\* the n-th play of a game, in the order the plays happened
Play(n) ==
    [id |-> ToString(n), text |-> "Play", period |-> [number |-> 1],
     clock |-> [displayValue |-> "10:00"],
     start |-> [team |-> [id |-> IF n % 2 = 0 THEN "12" ELSE "22"]]]

RECURSIVE SumTo(_, _)
SumTo(lens, k) == IF k = 0 THEN 0 ELSE lens[k] + SumTo(lens, k - 1)

Drive(first, n) == [plays |-> [i \in 1..n |-> Play(first + i - 1)]]

\* drives whose previous segments hold lens[1], lens[2], ... plays, oldest
\* segment first, and whose current segment holds cur plays (none when cur < 0)
DrivesDoc(lens, cur) ==
    LET previous == [k \in 1..Len(lens) |-> Drive(SumTo(lens, k - 1) + 1, lens[k])]
    IN  IF cur < 0 THEN [previous |-> previous]
        ELSE [previous |-> previous,
              current |-> Drive(SumTo(lens, Len(lens)) + 1, cur)]

DrivesDocs ==
    {EmptyDict} \cup
    { DrivesDoc(lens, cur) : lens \in SeqUpTo(0..MaxSegLen, MaxSegs),
                             cur \in (0 - 1)..MaxSegLen }

WinProb(id, pct) == [playId |-> id, homeWinPercentage |-> pct]

DefaultWinProb == << WinProb("1", 72), WinProb("2", 65) >>

\* entries of a probability index: two for play 2, a percentage of 0, an entry
\* with no percentage, an entry with no play id, an entry with an empty play id
WinProbEntries ==
    { WinProb("2", 72), WinProb("2", 40), WinProb("3", 0), [playId |-> "3"],
      [homeWinPercentage |-> 50], WinProb("", 10) }

Summary(teams, drives) ==
    [boxscore |-> [teams |-> teams], drives |-> drives,
     winprobability |-> DefaultWinProb]

\* a current segment whose plays start with side 22, with side 12, with no
\* start, with a start that names no team, and with a side no entry has
PossessionSummary ==
    Summary(<<AwayBlock, HomeBlock>>,
            [current |->
               [plays |-> << Play(1), Play(2), [id |-> "3", text |-> "Play"],
                             [id |-> "4", text |-> "Play", start |-> EmptyDict],
                             [id |-> "5", text |-> "Play",
                              start |-> [team |-> [id |-> "99"]]] >>]])

DefaultSummary == Summary(<<AwayBlock, HomeBlock>>, DrivesDoc(<<1>>, 1))

\* the detail documents fetch_game_summary may return
Summaries == {DefaultSummary}

GameA == "401547417"
GameB == "401547418"

\* the listing documents fetch_scoreboard may return: no event; one live and
\* one scheduled game; two live games; a live game whose side list has no
\* home side, then a live game; a live event that has no id; a live game and
\* a scheduled event that has no id; a live game whose side list has no away
\* side
Scoreboards ==
    { [events |-> << >>],
      [events |-> << Event(GameA, InProgress, <<HomeKC, AwayPHI>>),
                     Event(GameB, Scheduled, <<HomeTA, AwayNoScore>>) >>],
      [events |-> << Event(GameA, InProgress, <<HomeKC, AwayPHI>>),
                     Event(GameB, InProgress, <<HomeTA, AwayNoScore>>) >>],
      [events |-> << Event(GameA, InProgress, <<AwayPHI>>),
                     Event(GameB, InProgress, <<HomeTA, AwayNoScore>>) >>],
      [events |-> << [competitions |->
                        << [status |-> InProgress,
                            competitors |-> <<HomeKC, AwayPHI>>] >>] >>],
      [events |-> << Event(GameA, InProgress, <<HomeKC, AwayPHI>>),
                     [competitions |->
                        << [status |-> Scheduled,
                            competitors |-> <<HomeTA, AwayNoScore>>] >>] >>],
      [events |-> << Event(GameA, InProgress, <<HomeKC>>) >>] }

----
\* app/fetcher.py

\* extract_live_game_ids: the list of live ids (as the field value), or the
\* KeyError of event["id"]
RECURSIVE ExtractLiveGameIds(_, _, _)
RECURSIVE ExtractAllGameIds(_, _, _)
ExtractAllGameIds(events, conf, live_ids) ==
    IF events = << >> THEN [value |-> live_ids]
    ELSE IF "id" \notin DOMAIN Head(events) THEN Raise("KeyError")
    ELSE ExtractAllGameIds(Tail(events), conf, Append(live_ids, Head(events).id))
ExtractLiveGameIds(events, conf, live_ids) ==
    IF events = << >> THEN [value |-> live_ids]
    ELSE LET event == Head(events)
             competitions == Get(event, "competitions", << >>)
             status_name ==
                 Get(Get(Get(competitions[1], "status", EmptyDict), "type", EmptyDict),
                     "name", "")
         IN  IF competitions = << >>
             THEN ExtractLiveGameIds(Tail(events), conf, live_ids)
             ELSE IF status_name \notin conf.live_statuses
             THEN ExtractLiveGameIds(Tail(events), conf, live_ids)
             ELSE IF "id" \notin DOMAIN event THEN Raise("KeyError")
             ELSE ExtractLiveGameIds(Tail(events), conf, Append(live_ids, event.id))

----
\* app/poller.py

\* d[k] = v on a dict
Put(d, k, v) == [j \in DOMAIN d \cup {k} |-> IF j = k THEN v ELSE d[j]]

\* 2.0 ** 1024 is out of the range of a float: pow raises OverflowError
FloatMaxExp == 1024

\* the binary logarithm of the multipliers the model uses
Log2(m) == CASE m = 1 -> 0 [] m = 2 -> 1 [] m = 4 -> 2

\* a float beyond every delay the model compares it with
Huge == 2 ^ 20

\* backoff_multiplier ** n on floats, for a multiplier 1.0, 2.0 or 4.0: the
\* power (saturated at Huge), or OverflowError
FloatPow(m, n) ==
    IF Log2(m) * n >= FloatMaxExp THEN Raise("OverflowError")
    ELSE IF Log2(m) * n >= 20 THEN [value |-> Huge]
    ELSE [value |-> 2 ^ (Log2(m) * n)]

\* _get_delay: the delay, or the OverflowError of **
GetDelay(conf, failures) ==
    IF failures = 0 THEN [value |-> conf.poll_interval_seconds]
    ELSE IF IsError(FloatPow(conf.backoff_multiplier, failures))
    THEN FloatPow(conf.backoff_multiplier, failures)
    ELSE [value |-> Min(conf.backoff_initial_seconds
                          * FloatPow(conf.backoff_multiplier, failures).value,
                        conf.backoff_max_seconds)]

TaskIds == 1..MaxTasks
NoTask == 0

\* a slot that holds no task
IdleTask ==
    [pc |-> "none", cancel |-> FALSE,
     \* the result of the awaited call, once it is there
     response |-> NotRun,
     \* the locals of _do_poll: scoreboard, the position in live_ids, payload
     scoreboard |-> EmptyDict, idx |-> 0, payload |-> NotRun,
     \* the cycle so far: the counter and the records it started with, and the
     \* result of each item it has left
     before |-> NotRun, results |-> << >>]

\* a task suspended in an await
Suspended(rec) == rec.pc \in {"created", "listing", "detail", "upsert", "sleep"}
\* a slot whose task ended (it returned, was cancelled, or the OverflowError
\* of _get_delay escaped it) or that was never used
Finished(rec) == rec.pc \in {"none", "failed"}
\* a task executing _do_poll
InCycle(rec) == rec.pc \in {"listing", "detail", "upsert"}
\* a task whose awaited call has not returned yet
Pending(rec) == rec.response = NotRun

\* self._lock.locked()
LockedNever == FALSE
Locked == lock # NoTask

\* extract_live_game_ids on a listing
Extracted(scoreboard) ==
    ExtractLiveGameIds(Get(scoreboard, "events", << >>), settings, << >>)

\* live_ids of _do_poll
LiveIds(rec) == Extracted(rec.scoreboard).value

\* events_by_id of _do_poll: id -> event, or the KeyError of event["id"]
RECURSIVE BuildEventsById(_, _)
BuildEventsById(events, by_id) ==
    IF events = << >> THEN by_id
    ELSE IF "id" \notin DOMAIN Head(events) THEN Raise("KeyError")
    ELSE BuildEventsById(Tail(events), Put(by_id, Head(events).id, Head(events)))

EventsById(scoreboard) == BuildEventsById(Get(scoreboard, "events", << >>), EmptyDict)

\* the game the task is processing, and its scoreboard event
GameId(rec) == LiveIds(rec)[rec.idx]
SbEvent(rec) == EventsById(rec.scoreboard)[GameId(rec)]

\* a task that left _do_poll: its locals are gone
Left(rec) ==
    [rec EXCEPT !.response = NotRun, !.scoreboard = EmptyDict, !.idx = 0,
                !.payload = NotRun, !.before = NotRun, !.results = << >>]

\* the backoff_delay event of _get_delay
DelayLog(conf, failures) ==
    IF failures = 0 \/ IsError(GetDelay(conf, failures)) THEN << >>
    ELSE << [event |-> "backoff_delay", delay |-> GetDelay(conf, failures).value] >>

\* _poll_loop after _poll_once returned: _get_delay, then asyncio.sleep; the
\* OverflowError of _get_delay ends the task
Sleeping(rec, failures) ==
    IF IsError(GetDelay(settings, failures))
    THEN [Left(rec) EXCEPT !.pc = "failed"]
    ELSE [Left(rec) EXCEPT !.pc = "sleep"]

\* the outer except handler of _do_poll, then the loop's sleep
CycleFailedUncounted(t, kind) ==
    /\ consecutive_failures' = consecutive_failures
    /\ lock' = NoTask
    /\ tasks' = [tasks EXCEPT ![t] = Sleeping(tasks[t], consecutive_failures)]
    /\ logged' = << [event |-> "poll_cycle_failed",
                     consecutive_failures |-> consecutive_failures, exc |-> kind] >>
                 \o DelayLog(settings, consecutive_failures)
CycleFailed(t, kind) ==
    /\ consecutive_failures' = consecutive_failures + 1
    /\ lock' = NoTask
    /\ tasks' = [tasks EXCEPT ![t] = Sleeping(tasks[t], consecutive_failures + 1)]
    /\ logged' = << [event |-> "poll_cycle_failed",
                     consecutive_failures |-> consecutive_failures + 1,
                     exc |-> kind] >>
                 \o DelayLog(settings, consecutive_failures + 1)

\* the end of _do_poll after the last item, then the loop's sleep
CycleDone(t, logs) ==
    /\ consecutive_failures' = 0
    /\ lock' = NoTask
    /\ tasks' = [tasks EXCEPT ![t] = Sleeping(tasks[t], 0)]
    /\ logged' = logs

\* the for loop of _do_poll leaving the item at idx with this result: the
\* next item's fetch_game_summary, or the end of the cycle
NextItem(t, result, logs) ==
    IF tasks[t].idx < Len(LiveIds(tasks[t]))
    THEN /\ tasks' = [tasks EXCEPT ![t] =
                        [tasks[t] EXCEPT !.pc = "detail", !.idx = tasks[t].idx + 1,
                                         !.response = NotRun, !.payload = NotRun,
                                         !.results = Append(tasks[t].results, result)]]
         /\ logged' = logs
         /\ UNCHANGED << lock, consecutive_failures >>
    ELSE CycleDone(t, logs)

\* the except handler of one item: log game_failed and go on with the next
ItemFailedEscapes(t, result, kind) == CycleFailed(t, kind)
ItemFailedSilently(t, result, kind) == NextItem(t, result, << >>)
ItemFailed(t, result, kind) ==
    NextItem(t, result,
             << [event |-> "game_failed", game_id |-> GameId(tasks[t]),
                 exc |-> kind] >>)

\* the result of one item of a cycle
Result(game_id, p, upsert) == [game_id |-> game_id, payload |-> p, upsert |-> upsert]

\* start()
FreeSlots == {t \in TaskIds : Finished(tasks[t])}
StartResetting ==
    /\ caller = "idle"
    /\ FreeSlots # {}
    /\ LET t == CHOOSE x \in FreeSlots : \A y \in FreeSlots : x <= y
       IN  /\ task' = t
           /\ tasks' = [tasks EXCEPT ![t] = [IdleTask EXCEPT !.pc = "created"]]
    /\ running' = TRUE
    /\ stopped' = FALSE
    /\ consecutive_failures' = 0
    /\ logged' = << >>
    /\ UNCHANGED << lock, latest_payloads, has_store, settings,
                    caller, store_rows, threads, readerVars, otherVars, transformVars, delay >>

Start ==
    /\ caller = "idle"
    /\ FreeSlots # {}
    /\ LET t == CHOOSE x \in FreeSlots : \A y \in FreeSlots : x <= y
       IN  /\ task' = t
           /\ tasks' = [tasks EXCEPT ![t] = [IdleTask EXCEPT !.pc = "created"]]
    /\ running' = TRUE
    /\ stopped' = FALSE
    /\ logged' = << >>
    /\ UNCHANGED << lock, consecutive_failures, latest_payloads, has_store, settings,
                    caller, store_rows, threads, readerVars, otherVars, transformVars, delay >>

\* stop() without line 44: the flag is left as it was
StopKeepsRunning ==
    /\ caller = "idle"
    /\ IF task = NoTask \/ Finished(tasks[task])
       THEN /\ stopped' = TRUE
            /\ UNCHANGED << tasks, caller >>
       ELSE /\ tasks' = [tasks EXCEPT ![task].cancel = TRUE]
            /\ caller' = "stopping"
            /\ UNCHANGED stopped
    /\ logged' = << >>
    /\ UNCHANGED << running, task, lock, consecutive_failures, latest_payloads,
                    has_store, settings, store_rows, threads, readerVars, otherVars,
                    transformVars, delay >>

\* stop() up to its await: the task is cancelled; a task that has ended is
\* awaited without suspending
Stop ==
    /\ caller = "idle"
    /\ running' = FALSE
    /\ IF task = NoTask \/ Finished(tasks[task])
       THEN /\ stopped' = TRUE
            /\ UNCHANGED << tasks, caller >>
       ELSE /\ tasks' = [tasks EXCEPT ![task].cancel = TRUE]
            /\ caller' = "stopping"
            /\ UNCHANGED stopped
    /\ logged' = << >>
    /\ UNCHANGED << task, lock, consecutive_failures, latest_payloads, has_store,
                    settings, store_rows, threads, readerVars, otherVars, transformVars, delay >>

\* stop() after its await: the awaited task has ended
StopReturns ==
    /\ caller = "stopping"
    /\ Finished(tasks[task])
    /\ caller' = "idle"
    /\ stopped' = TRUE
    /\ logged' = << >>
    /\ UNCHANGED << running, task, lock, consecutive_failures, latest_payloads,
                    has_store, settings, tasks, store_rows, threads, readerVars, otherVars, transformVars,
                    delay >>

\* a cancellation after which the lock stays with the task that ended
CancelledKeepsLock(t) ==
    /\ tasks[t].cancel
    /\ Suspended(tasks[t])
    /\ tasks' = [tasks EXCEPT ![t] =
                    [Left(tasks[t]) EXCEPT !.pc = "none", !.cancel = FALSE]]
    /\ threads' = IF tasks[t].pc = "upsert" /\ Pending(tasks[t])
                  THEN threads \cup {tasks[t].payload}
                  ELSE threads
    /\ logged' = << >>
    /\ UNCHANGED << running, task, lock, consecutive_failures, latest_payloads,
                    has_store, settings, caller, store_rows, stopped, readerVars,
                    otherVars, transformVars, delay >>

\* CancelledError thrown into a suspended task, whether or not the awaited call
\* has returned: no handler of _do_poll catches it, `async with` releases the
\* lock, and a worker thread that was awaited runs on
Cancelled(t) ==
    /\ tasks[t].cancel
    /\ Suspended(tasks[t])
    /\ tasks' = [tasks EXCEPT ![t] =
                    [Left(tasks[t]) EXCEPT !.pc = "none", !.cancel = FALSE]]
    /\ lock' = IF InCycle(tasks[t]) THEN NoTask ELSE lock
    /\ threads' = IF tasks[t].pc = "upsert" /\ Pending(tasks[t])
                  THEN threads \cup {tasks[t].payload}
                  ELSE threads
    /\ logged' = << >>
    /\ UNCHANGED << running, task, consecutive_failures, latest_payloads, has_store,
                    settings, caller, store_rows, stopped, readerVars, otherVars, transformVars, delay >>

\* _poll_loop at its while, and _poll_once up to the first await of _do_poll
LoopStep(t) ==
    /\ tasks[t].pc \in {"created", "sleep"}
    /\ ~tasks[t].cancel
    /\ IF ~running
       THEN /\ tasks' = [tasks EXCEPT ![t] = [tasks[t] EXCEPT !.pc = "none"]]
            /\ logged' = << >>
            /\ UNCHANGED lock
       ELSE IF Locked
       THEN /\ tasks' = [tasks EXCEPT ![t] = Sleeping(tasks[t], consecutive_failures)]
            /\ logged' = << [event |-> "poll_skipped_overlap"] >>
                         \o DelayLog(settings, consecutive_failures)
            /\ UNCHANGED lock
       ELSE /\ lock' = t
            /\ tasks' = [tasks EXCEPT ![t] =
                            [IdleTask EXCEPT
                                !.pc = "listing",
                                !.before = [failures |-> consecutive_failures,
                                            latest |-> latest_payloads]]]
            /\ logged' = << >>
    /\ UNCHANGED << running, task, consecutive_failures, latest_payloads, has_store,
                    settings, caller, store_rows, threads, stopped, readerVars, otherVars, transformVars,
                    delay >>

\* the listing request ends: a document, or an error (a timeout, a non-2xx
\* status).  A response that makes the cycle fail is followed while the
\* counter is below MaxFailures.
ScoreboardArrives(t) ==
    /\ tasks[t].pc = "listing"
    /\ Pending(tasks[t])
    /\ \E r \in Scoreboards \cup {Raise("HTTPError")} :
         /\ (IsError(r) \/ IsError(Extracted(r)) \/ IsError(EventsById(r)))
               => consecutive_failures < MaxFailures
         /\ tasks' = [tasks EXCEPT ![t].response = r]
    /\ logged' = << >>
    /\ UNCHANGED << running, task, lock, consecutive_failures, latest_payloads,
                    has_store, settings, caller, store_rows, threads, stopped,
                    readerVars, otherVars, transformVars, delay >>

\* _do_poll resumes from fetch_scoreboard: the except handler when it raised;
\* else the live ids, events_by_id, and the first item's fetch_game_summary
ScoreboardReturns(t) ==
    /\ tasks[t].pc = "listing"
    /\ ~Pending(tasks[t])
    /\ ~tasks[t].cancel
    /\ LET r == tasks[t].response
       IN  IF IsError(r) THEN CycleFailed(t, r.error)
           ELSE IF IsError(Extracted(r)) THEN CycleFailed(t, "KeyError")
           ELSE IF Extracted(r).value = << >> THEN CycleDone(t, << >>)
           ELSE IF IsError(EventsById(r)) THEN CycleFailed(t, "KeyError")
           ELSE /\ tasks' = [tasks EXCEPT ![t] =
                               [tasks[t] EXCEPT !.pc = "detail", !.idx = 1,
                                                !.scoreboard = r,
                                                !.response = NotRun]]
                /\ logged' = << >>
                /\ UNCHANGED << lock, consecutive_failures >>
    /\ UNCHANGED << running, task, latest_payloads, has_store, settings, caller,
                    store_rows, threads, stopped, readerVars, otherVars, transformVars, delay >>

\* the detail request of the current item ends: a document, or an error
SummaryArrives(t) ==
    /\ tasks[t].pc = "detail"
    /\ Pending(tasks[t])
    /\ \E r \in Summaries \cup {Raise("HTTPError")} :
         tasks' = [tasks EXCEPT ![t].response = r]
    /\ logged' = << >>
    /\ UNCHANGED << running, task, lock, consecutive_failures, latest_payloads,
                    has_store, settings, caller, store_rows, threads, stopped,
                    readerVars, otherVars, transformVars, delay >>

\* _do_poll resuming from fetch_game_summary without lines 85-86: the record
\* is kept in memory and never handed to the store
SummaryReturnsWithoutUpsert(t) ==
    /\ tasks[t].pc = "detail"
    /\ ~Pending(tasks[t])
    /\ ~tasks[t].cancel
    /\ LET r == tasks[t].response
           game_id == GameId(tasks[t])
           p == TransformGame(SbEvent(tasks[t]), r, settings)
       IN  IF IsError(r)
           THEN /\ ItemFailed(t, Result(game_id, r, "none"), r.error)
                /\ UNCHANGED latest_payloads
           ELSE IF IsError(p)
           THEN /\ ItemFailed(t, Result(game_id, p, "none"), p.error)
                /\ UNCHANGED latest_payloads
           ELSE /\ latest_payloads' = Put(latest_payloads, game_id, p)
                /\ NextItem(t, Result(game_id, p, "none"), << >>)
    /\ UNCHANGED << running, task, has_store, settings, caller, store_rows, threads,
                    stopped, readerVars, otherVars, transformVars, delay >>

\* _do_poll resumes from fetch_game_summary: transform_game, the in-memory
\* update and the upsert's worker thread; the item's except handler when the
\* fetch or the transform raised
SummaryReturnsUpsertFirst(t) ==
    /\ tasks[t].pc = "detail"
    /\ ~Pending(tasks[t])
    /\ ~tasks[t].cancel
    /\ LET r == tasks[t].response
           game_id == GameId(tasks[t])
           p == TransformGame(SbEvent(tasks[t]), r, settings)
       IN  IF IsError(r)
           THEN /\ ItemFailed(t, Result(game_id, r, "none"), r.error)
                /\ UNCHANGED latest_payloads
           ELSE IF IsError(p)
           THEN /\ ItemFailed(t, Result(game_id, p, "none"), p.error)
                /\ UNCHANGED latest_payloads
           ELSE /\ latest_payloads' = IF has_store
                                     THEN latest_payloads
                                     ELSE Put(latest_payloads, game_id, p)
                /\ IF has_store
                   THEN /\ tasks' = [tasks EXCEPT ![t] =
                                       [tasks[t] EXCEPT !.pc = "upsert", !.payload = p,
                                                        !.response = NotRun]]
                        /\ logged' = << >>
                        /\ UNCHANGED << lock, consecutive_failures >>
                   ELSE NextItem(t, Result(game_id, p, "none"), << >>)
    /\ UNCHANGED << running, task, has_store, settings, caller, store_rows, threads,
                    stopped, readerVars, otherVars, transformVars, delay >>

SummaryReturns(t) ==
    /\ tasks[t].pc = "detail"
    /\ ~Pending(tasks[t])
    /\ ~tasks[t].cancel
    /\ LET r == tasks[t].response
           game_id == GameId(tasks[t])
           p == TransformGame(SbEvent(tasks[t]), r, settings)
       IN  IF IsError(r)
           THEN /\ ItemFailed(t, Result(game_id, r, "none"), r.error)
                /\ UNCHANGED latest_payloads
           ELSE IF IsError(p)
           THEN /\ ItemFailed(t, Result(game_id, p, "none"), p.error)
                /\ UNCHANGED latest_payloads
           ELSE /\ latest_payloads' = Put(latest_payloads, game_id, p)
                /\ IF has_store
                   THEN /\ tasks' = [tasks EXCEPT ![t] =
                                       [tasks[t] EXCEPT !.pc = "upsert", !.payload = p,
                                                        !.response = NotRun]]
                        /\ logged' = << >>
                        /\ UNCHANGED << lock, consecutive_failures >>
                   ELSE NextItem(t, Result(game_id, p, "none"), << >>)
    /\ UNCHANGED << running, task, has_store, settings, caller, store_rows, threads,
                    stopped, readerVars, otherVars, transformVars, delay >>

\* _upsert_sync in the worker thread of asyncio.to_thread: the row is
\* written, or the client raises and no row is written
ThreadRuns(t) ==
    /\ tasks[t].pc = "upsert"
    /\ Pending(tasks[t])
    /\ \/ /\ store_rows' = Put(store_rows, tasks[t].payload.game.game_id,
                               tasks[t].payload)
          /\ tasks' = [tasks EXCEPT ![t].response = [value |-> "written"]]
       \/ /\ tasks' = [tasks EXCEPT ![t].response = Raise("APIError")]
          /\ UNCHANGED store_rows
    /\ logged' = << >>
    /\ UNCHANGED << running, task, lock, consecutive_failures, latest_payloads,
                    has_store, settings, caller, threads, stopped, readerVars, otherVars, transformVars,
                    delay >>

\* _do_poll resumes from upsert_game: the next item, or the item's except
\* handler when the upsert raised
UpsertReturnsRetrying(t) ==
    /\ tasks[t].pc = "upsert"
    /\ ~Pending(tasks[t])
    /\ ~tasks[t].cancel
    /\ IF IsError(tasks[t].response)
       THEN /\ tasks' = [tasks EXCEPT ![t].response = NotRun]
            /\ logged' = << >>
            /\ UNCHANGED << lock, consecutive_failures >>
       ELSE NextItem(t, Result(GameId(tasks[t]), tasks[t].payload, "ok"), << >>)
    /\ UNCHANGED << running, task, latest_payloads, has_store, settings, caller,
                    store_rows, threads, stopped, readerVars, otherVars, transformVars, delay >>
UpsertReturns(t) ==
    /\ tasks[t].pc = "upsert"
    /\ ~Pending(tasks[t])
    /\ ~tasks[t].cancel
    /\ IF IsError(tasks[t].response)
       THEN ItemFailed(t, Result(GameId(tasks[t]), tasks[t].payload, "failed"),
                       tasks[t].response.error)
       ELSE NextItem(t, Result(GameId(tasks[t]), tasks[t].payload, "ok"), << >>)
    /\ UNCHANGED << running, task, latest_payloads, has_store, settings, caller,
                    store_rows, threads, stopped, readerVars, otherVars, transformVars, delay >>

\* a worker thread whose cycle was cancelled writes its row, or raises
OrphanRuns ==
    \E p \in threads :
        /\ \/ store_rows' = Put(store_rows, p.game.game_id, p)
           \/ UNCHANGED store_rows
        /\ threads' = threads \ {p}
        /\ logged' = << >>
        /\ UNCHANGED << running, task, lock, consecutive_failures, latest_payloads,
                        has_store, settings, tasks, caller, stopped, readerVars, otherVars, transformVars,
                        delay >>

\* Poller.__init__, before any call
PollerInit ==
    /\ running = FALSE
    /\ task = NoTask
    /\ lock = NoTask
    /\ consecutive_failures = 0
    /\ latest_payloads = EmptyDict
    /\ tasks = [t \in TaskIds |-> IdleTask]
    /\ caller = "idle"
    /\ store_rows = EmptyDict
    /\ threads = {}
    /\ logged = << >>
    /\ stopped = FALSE

FetcherIdle ==
    /\ listing = NotRun
    /\ extracted = NotRun

PureIdle ==
    /\ now = 0
    /\ documents = NotRun
    /\ pure_calls = << >>

ToolIdle ==
    /\ tool_name = NotRun
    /\ tool_arguments = NotRun
    /\ client = NotRun
    /\ client_calls = << >>
    /\ tool_response = NotRun

TransformIdle ==
    /\ scoreboard_event = NotRun
    /\ summary = NotRun
    /\ payload = NotRun
    /\ perm_event = NotRun
    /\ perm_summary = NotRun
    /\ perm_payload = NotRun

Init ==
    /\ PollerInit
    /\ has_store \in BOOLEAN
    /\ settings = DefaultSettings
    /\ TransformIdle
    /\ delay = NotRun
    /\ snapshot = NotRun
    /\ FetcherIdle
    /\ ToolIdle
    /\ PureIdle

Next ==
    \/ Start
    \/ Stop
    \/ StopReturns
    \/ \E t \in TaskIds : Cancelled(t)
    \/ \E t \in TaskIds : LoopStep(t)
    \/ \E t \in TaskIds : ScoreboardArrives(t)
    \/ \E t \in TaskIds : ScoreboardReturns(t)
    \/ \E t \in TaskIds : SummaryArrives(t)
    \/ \E t \in TaskIds : SummaryReturns(t)
    \/ \E t \in TaskIds : ThreadRuns(t)
    \/ \E t \in TaskIds : UpsertReturns(t)
    \/ OrphanRuns

Spec == Init /\ [][Next]_vars

----
\* One call of transform_game, and one on the same documents with the side
\* list or the statistics blocks reordered.

\* the documents of a call: the plays vary, or the side list, or the blocks,
\* or the probability index, or the ids and abbreviations of the sides
TransformInputs ==
    \/ /\ scoreboard_event = DefaultEvent
       /\ summary \in {Summary(<<AwayBlock, HomeBlock>>, d) : d \in DrivesDocs}
                        \cup {[boxscore |-> [teams |-> << >>]], EmptyDict}
       /\ settings \in {[DefaultSettings EXCEPT !.max_recent_plays = m] :
                          m \in 0..MaxEvents}
    \/ /\ scoreboard_event \in {Event(GameA, InProgress, c) :
                                  c \in SeqUpTo(Competitors, MaxSides)}
       /\ summary = DefaultSummary
       /\ settings = DefaultSettings
    \/ /\ scoreboard_event = DefaultEvent
       /\ summary \in {Summary(b, DrivesDoc(<<1>>, 1)) : b \in SeqUpTo(Blocks, MaxBlocks)}
       /\ settings = DefaultSettings
    \/ /\ scoreboard_event = DefaultEvent
       /\ summary \in {[Summary(<<AwayBlock, HomeBlock>>, DrivesDoc(<<2>>, 1))
                           EXCEPT !.winprobability = w] :
                        w \in SeqUpTo(WinProbEntries, MaxProbs)}
       /\ settings = DefaultSettings
    \/ /\ scoreboard_event \in {Event(GameA, InProgress, <<h, a>>) :
                                  h \in HomeSides, a \in AwaySides}
       /\ summary = PossessionSummary
       /\ settings = [DefaultSettings EXCEPT !.max_recent_plays = 10]

InitTransform ==
    /\ PollerInit
    /\ has_store = FALSE
    /\ TransformInputs
    /\ payload = NotRun
    /\ perm_event = NotRun
    /\ perm_summary = NotRun
    /\ perm_payload = NotRun
    /\ delay = NotRun
    /\ snapshot = NotRun
    /\ FetcherIdle
    /\ ToolIdle
    /\ PureIdle

\* transform_game(scoreboard_event, summary, settings)
Transform ==
    /\ payload = NotRun
    /\ payload' = TransformGame(scoreboard_event, summary, settings)
    /\ UNCHANGED << pollerVars, readerVars, otherVars, settings, scoreboard_event, summary, perm_event,
                    perm_summary, perm_payload, delay >>

\* the same scoreboard event with its competitors in another order
PermuteCompetitors ==
    /\ perm_event = NotRun
    /\ perm_summary = NotRun
    /\ \E c \in PermutationsOf(scoreboard_event.competitions[1].competitors) :
         perm_event' =
             [scoreboard_event EXCEPT !.competitions[1].competitors = c]
    /\ UNCHANGED << pollerVars, readerVars, otherVars, settings, scoreboard_event, summary, payload,
                    perm_summary, perm_payload, delay >>

\* the same summary with its boxscore teams in another order
PermuteBoxscore ==
    /\ "boxscore" \in DOMAIN summary
    /\ perm_event = NotRun
    /\ perm_summary = NotRun
    /\ \E b \in PermutationsOf(summary.boxscore.teams) :
         perm_summary' = [summary EXCEPT !.boxscore.teams = b]
    /\ UNCHANGED << pollerVars, readerVars, otherVars, settings, scoreboard_event, summary, payload,
                    perm_event, perm_payload, delay >>

\* transform_game on the reordered documents
TransformPermuted ==
    /\ perm_payload = NotRun
    /\ perm_event # NotRun \/ perm_summary # NotRun
    /\ perm_payload' =
           TransformGame(IF perm_event # NotRun THEN perm_event ELSE scoreboard_event,
                         IF perm_summary # NotRun THEN perm_summary ELSE summary,
                         settings)
    /\ UNCHANGED << pollerVars, readerVars, otherVars, settings, scoreboard_event, summary, payload,
                    perm_event, perm_summary, delay >>

NextTransform ==
    \/ Transform
    \/ PermuteCompetitors
    \/ PermuteBoxscore
    \/ TransformPermuted

SpecTransform == InitTransform /\ [][NextTransform]_vars

----
\* One call of _get_delay on a poller with any failure count.

InitDelay ==
    /\ running = FALSE
    /\ task = NoTask
    /\ lock = NoTask
    /\ consecutive_failures \in 0..MaxCount
    /\ latest_payloads = EmptyDict
    /\ has_store = FALSE
    /\ settings \in {[DefaultSettings EXCEPT !.backoff_multiplier = m] : m \in {1, 2, 4}}
    /\ tasks = [t \in TaskIds |-> IdleTask]
    /\ caller = "idle"
    /\ store_rows = EmptyDict
    /\ threads = {}
    /\ logged = << >>
    /\ stopped = FALSE
    /\ TransformIdle
    /\ delay = NotRun
    /\ snapshot = NotRun
    /\ FetcherIdle
    /\ ToolIdle
    /\ PureIdle

\* self._get_delay()
GetDelayCall ==
    /\ delay = NotRun
    /\ delay' = GetDelay(settings, consecutive_failures)
    /\ logged' = DelayLog(settings, consecutive_failures)
    /\ UNCHANGED << running, task, lock, consecutive_failures, latest_payloads,
                    has_store, settings, tasks, caller, store_rows, threads, stopped,
                    readerVars, otherVars, transformVars >>

NextDelay == GetDelayCall

SpecDelay == InitDelay /\ [][NextDelay]_vars

----
\* Properties of the poller (Spec)

CyclesRunning == {t \in TaskIds : InCycle(tasks[t])}

\* C1: at most one task executes _do_poll at any time, and a _poll_once that
\* finds the lock held fetches nothing, changes no state of the poller,
\* does not enter the cycle later, and logs poll_skipped_overlap
CyclesNeverOverlap ==
    /\ [](Cardinality(CyclesRunning) <= 1)
    /\ [][\A t \in TaskIds :
            (LoopStep(t) /\ running /\ lock # NoTask) =>
                /\ logged' # << >>
                /\ logged'[1].event = "poll_skipped_overlap"
                /\ tasks'[t].pc = "sleep"
                /\ Pending(tasks'[t])
                /\ \A u \in TaskIds \ {t} : tasks'[u] = tasks[u]
                /\ UNCHANGED << lock, consecutive_failures, latest_payloads,
                                store_rows, threads >>]_vars

\* a loop was skipped while another task is inside its cycle
SkippedWhileBusy ==
    /\ logged # << >>
    /\ logged[1].event = "poll_skipped_overlap"
    /\ \E t \in TaskIds : tasks[t].pc = "upsert"

\* C2: once stop() has returned and until the next start(), no task executes
\* _do_poll
NoCycleAfterStop == stopped => CyclesRunning = {}

\* C3: when _do_poll resumes from a listing fetch that raised, the cycle ends
\* with the counter one above its value before the cycle, the latest records
\* as they were before the cycle, and no detail fetch and no upsert made
ListingFailureCountsOnce ==
    [][\A t \in TaskIds :
         (/\ tasks[t].pc = "listing"
          /\ IsError(tasks[t].response)
          /\ ~InCycle(tasks'[t])
          /\ ~tasks[t].cancel) =>
             /\ consecutive_failures' = tasks[t].before.failures + 1
             /\ latest_payloads' = tasks[t].before.latest
             /\ tasks[t].idx = 0
             /\ tasks[t].results = << >>
             /\ tasks[t].payload = NotRun
             /\ UNCHANGED << store_rows, threads >>]_vars

\* a second listing failure in a row, with records kept from an earlier cycle
SecondListingFailure ==
    /\ logged # << >>
    /\ logged[1] = [event |-> "poll_cycle_failed", consecutive_failures |-> 2,
                    exc |-> "HTTPError"]
    /\ consecutive_failures = 2
    /\ DOMAIN latest_payloads = {GameA, GameB}

\* the listing fetch of the task's cycle returned a document
ListingSucceeded(rec) ==
    \/ rec.pc = "listing" /\ ~Pending(rec) /\ ~IsError(rec.response)
    \/ rec.pc \in {"detail", "upsert"}

\* C4: a cycle whose listing fetch returned a document ends with the counter
\* at 0, whatever the document and whatever items failed
ListingSuccessResetsCounter ==
    [][\A t \in TaskIds :
         (/\ ListingSucceeded(tasks[t])
          /\ ~tasks[t].cancel
          /\ ~InCycle(tasks'[t])) => consecutive_failures' = 0]_vars

\* the result of the item a task is leaving, read off the task before the step
LastResult(rec) ==
    IF rec.pc = "upsert" THEN rec.payload
    ELSE IF IsError(rec.response) THEN rec.response
    ELSE TransformGame(SbEvent(rec), rec.response, settings)

\* the results of all items of the cycle a task is ending
AllResults(rec) ==
    [i \in 1..(Len(rec.results) + 1) |->
        IF i <= Len(rec.results) THEN rec.results[i].payload ELSE LastResult(rec)]

\* C5: when a cycle over N live items ends, every live item was gone through
\* and each item whose fetch and transform succeeded is in the latest
\* records with the record of this cycle, whichever other items failed
FailedItemsDoNotStopOthers ==
    [][\A t \in TaskIds :
         (/\ tasks[t].pc \in {"detail", "upsert"}
          /\ ~Pending(tasks[t])
          /\ ~tasks[t].cancel
          /\ ~InCycle(tasks'[t])) =>
             LET live_ids == LiveIds(tasks[t])
                 all == AllResults(tasks[t])
             IN  /\ Len(all) = Len(live_ids)
                 /\ \A i \in 1..Len(all) :
                      ~IsError(all[i]) =>
                          /\ live_ids[i] \in DOMAIN latest_payloads'
                          /\ latest_payloads'[live_ids[i]] = all[i]]_vars

\* a cycle over two live items ended: the first failed, the second is stored
SecondItemStoredAfterFailure ==
    /\ DOMAIN latest_payloads = {GameB}
    /\ consecutive_failures = 0
    /\ lock = NoTask
    /\ \E t \in TaskIds : tasks[t].pc = "sleep"

----
\* Properties of _get_delay (SpecDelay)

\* min(initial * multiplier ^ count, max) in exact arithmetic, for the
\* multipliers 1, 2 and 4 (initial * 2 ^ 20 is above every max of the model)
BackoffFormula(conf, count) ==
    IF Log2(conf.backoff_multiplier) * count >= 20 THEN conf.backoff_max_seconds
    ELSE Min(conf.backoff_initial_seconds * 2 ^ (Log2(conf.backoff_multiplier) * count),
             conf.backoff_max_seconds)

\* C6: _get_delay returns the poll interval at count 0 and
\* min(initial * multiplier ^ count, max) at every count >= 1
DelayIsBackoffFormula ==
    delay # NotRun =>
        delay = [value |-> IF consecutive_failures = 0
                           THEN settings.poll_interval_seconds
                           ELSE BackoffFormula(settings, consecutive_failures)]

----
\* Properties of transform_game (SpecTransform)

Transformed == payload # NotRun /\ ~IsError(payload)

\* the plays of previous segments, oldest segment first, in stored order
RECURSIVE PlaysOf(_)
PlaysOf(segments) ==
    IF segments = << >> THEN << >>
    ELSE Get(Head(segments), "plays", << >>) \o PlaysOf(Tail(segments))

\* the plays of the previous segments and of the current segment
PreviousPlays(summ) ==
    PlaysOf(Get(Get(summ, "drives", EmptyDict), "previous", << >>))
CurrentPlays(summ) ==
    Get(Get(Get(summ, "drives", EmptyDict), "current", EmptyDict), "plays", << >>)

\* the whole play history of a detail document, oldest play first
History(summ) == PreviousPlays(summ) \o CurrentPlays(summ)

\* the ids of the last n plays of a history, oldest first
LastIds(h, n) == [i \in 1..n |-> h[Len(h) - n + i].id]

EventIds(p) == [i \in 1..Len(p.events) |-> p.events[i].event_id]

\* C7: the events of the record are the most recent min(max, total) plays of
\* the whole history, listed oldest to newest
RecentEventsAreLatestPlays ==
    Transformed =>
        EventIds(payload) =
            LastIds(History(summary),
                    Min(settings.max_recent_plays, Len(History(summary))))

\* C8: the number of events of the record is min(max, total number of plays
\* of the current and all previous segments)
RecentEventsCount ==
    Transformed =>
        Len(payload.events) = Min(settings.max_recent_plays, Len(History(summary)))

\* a history over the current and a previous segment that is longer than max
TruncatedHistory ==
    /\ Transformed
    /\ Len(CurrentPlays(summary)) >= 2
    /\ Len(PreviousPlays(summary)) >= 2
    /\ settings.max_recent_plays = 3
    /\ Len(payload.events) = 3

Labelled(entries, side) == {i \in 1..Len(entries) : LabelOf(entries[i]) = side}

SidesOf(e) == e.competitions[1].competitors

\* C9: for a side list with one home and one away entry, transform_game on any
\* permutation of the list gives the same home and away team records (and
\* raises on the permutation exactly when it raises on the list)
SideOrderIndependence ==
    (/\ payload # NotRun
     /\ perm_event # NotRun
     /\ perm_payload # NotRun
     /\ Cardinality(Labelled(SidesOf(scoreboard_event), "home")) = 1
     /\ Cardinality(Labelled(SidesOf(scoreboard_event), "away")) = 1) =>
        IF IsError(payload) THEN IsError(perm_payload)
        ELSE /\ ~IsError(perm_payload)
             /\ perm_payload.game.home_team = payload.game.home_team
             /\ perm_payload.game.away_team = payload.game.away_team

\* a three-entry list whose home entry is last, against the list with the home
\* entry first
SidesReordered ==
    /\ Transformed
    /\ perm_event # NotRun
    /\ perm_payload # NotRun
    /\ SidesOf(scoreboard_event) = <<Unlabelled, AwayPHI, HomeKC>>
    /\ SidesOf(perm_event) = <<HomeKC, AwayPHI, Unlabelled>>
    /\ perm_payload.game.home_team.name = "Kansas City Chiefs"

StatsUnchanged ==
    /\ ~IsError(perm_payload)
    /\ perm_payload.game.home_team.stats = payload.game.home_team.stats
    /\ perm_payload.game.away_team.stats = payload.game.away_team.stats

BlocksPermuted == Transformed /\ perm_summary # NotRun /\ perm_payload # NotRun

\* C10 as stated: for every detail document, transform_game on any permutation
\* of its statistics blocks gives each side the same stats
StatsOrderIndependenceAnyDocument == BlocksPermuted => StatsUnchanged

\* C10: for every detail document in which no two statistics blocks carry the
\* same side label, transform_game on any permutation of its statistics blocks
\* gives each side the same stats
StatsOrderIndependence ==
    (/\ BlocksPermuted
     /\ \A side \in {"home", "away"} :
          Cardinality(Labelled(summary.boxscore.teams, side)) <= 1) =>
        StatsUnchanged

\* the home block after the away block, against the home block first
BlocksReordered ==
    /\ BlocksPermuted
    /\ summary.boxscore.teams = <<AwayBlock, HomeBlock>>
    /\ perm_summary.boxscore.teams = <<HomeBlock, AwayBlock>>
    /\ perm_payload.game.home_team.stats = [totalYards |-> "310", thirdDownEff |-> "5-10"]

\* the statistics of the first block labelled side (none when no block is)
MatchedStatistics(summ, side) ==
    LET teams == Get(Get(summ, "boxscore", EmptyDict), "teams", << >>)
        first == CHOOSE i \in Labelled(teams, side) :
                     \A j \in Labelled(teams, side) : i <= j
    IN  IF Labelled(teams, side) = {} THEN << >>
        ELSE Get(teams[first], "statistics", << >>)

\* stats holds the whitelisted entries of statistics and nothing else
Whitelisted(stats, statistics) ==
    /\ DOMAIN stats \subseteq STAT_KEYS
    /\ \A n \in DOMAIN stats :
         \E i \in 1..Len(statistics) :
             /\ Get(statistics[i], "name", NoLabel) = n
             /\ stats[n] = Get(statistics[i], "displayValue", "")
    /\ \A i \in 1..Len(statistics) :
         Get(statistics[i], "name", NoLabel) \in STAT_KEYS =>
             Get(statistics[i], "name", NoLabel) \in DOMAIN stats

\* C11: every key of a side's stats is in STAT_KEYS, entries of any other name
\* are dropped without error, and every whitelisted name of the matched block
\* is in the stats with its display value
StatsAreWhitelisted ==
    Transformed =>
        /\ Whitelisted(payload.game.home_team.stats,
                       MatchedStatistics(summary, "home"))
        /\ Whitelisted(payload.game.away_team.stats,
                       MatchedStatistics(summary, "away"))

\* the away block, which holds a statistic outside the whitelist, was transformed
UnknownStatDropped ==
    /\ Transformed
    /\ MatchedStatistics(summary, "away") = AwayBlock.statistics
    /\ \E i \in 1..Len(AwayBlock.statistics) : AwayBlock.statistics[i].name \notin STAT_KEYS
    /\ payload.game.away_team.stats = [totalYards |-> "285", firstDowns |-> "15"]

\* the entries of the probability index that hold a percentage for a play id
EntriesFor(summ, id) ==
    LET entries == Get(summ, "winprobability", << >>)
    IN  {i \in 1..Len(entries) :
            /\ Get(entries[i], "playId", "") = id
            /\ "homeWinPercentage" \in DOMAIN entries[i]}

\* C12: the win_probability of each event is the percentage of the (last)
\* index entry whose play id is the event's id, and None when no entry holds
\* a percentage for that id
WinProbabilityFromIndex ==
    Transformed =>
        \A e \in 1..Len(payload.events) :
            LET found == EntriesFor(summary, payload.events[e].event_id)
                last == CHOOSE i \in found : \A j \in found : j <= i
            IN  IF found = {}
                THEN payload.events[e].win_probability = NoProbability
                ELSE payload.events[e].win_probability =
                         summary.winprobability[last].homeWinPercentage

\* an event that has an entry in the index next to one that has none
ProbabilityMappedAndMissing ==
    /\ Transformed
    /\ Get(summary, "winprobability", << >>) = << WinProb("2", 72), [playId |-> "3"] >>
    /\ EventIds(payload) = << "2", "3" >>
    /\ payload.events[1].win_probability = 72
    /\ payload.events[2].win_probability = NoProbability

----
\* A reader of the latest_payloads property next to a poller without store.

\* the dict the property returns: a copy of self._latest_payloads, or
\* self._latest_payloads itself
LatestPayloadsAlias(d) == [alias |-> TRUE, entries |-> d, edited |-> FALSE]
LatestPayloads(d) == [alias |-> FALSE, entries |-> d, edited |-> FALSE]

\* the entries of a returned dict as its holder sees them
Seen(snap) == IF snap.alias THEN latest_payloads ELSE snap.entries

\* a property that hands over the records and starts a new dict
ReadLatestAndClear ==
    /\ snapshot = NotRun
    /\ snapshot' = LatestPayloads(latest_payloads)
    /\ latest_payloads' = EmptyDict
    /\ logged' = << >>
    /\ UNCHANGED << running, task, lock, consecutive_failures, has_store, settings,
                    tasks, caller, store_rows, threads, stopped, transformVars,
                    delay, otherVars >>

\* snap = poller.latest_payloads
ReadLatest ==
    /\ snapshot = NotRun
    /\ snapshot' = LatestPayloads(latest_payloads)
    /\ logged' = << >>
    /\ UNCHANGED << running, task, lock, consecutive_failures, latest_payloads,
                    has_store, settings, tasks, caller, store_rows, threads, stopped,
                    transformVars, delay, otherVars >>

\* the reader's own record, and its key
ReaderRecord == [type |-> "reader"]
ReaderKey == "reader"

\* the reader changes the dict it was given: snap[ReaderKey] = ReaderRecord,
\* or del snap[k]
ReaderEdits ==
    /\ snapshot # NotRun
    /\ ~snapshot.edited
    /\ \E new \in {Put(Seen(snapshot), ReaderKey, ReaderRecord)} \cup
                  {[j \in DOMAIN Seen(snapshot) \ {k} |-> Seen(snapshot)[j]] :
                     k \in DOMAIN Seen(snapshot)} :
         IF snapshot.alias
         THEN /\ latest_payloads' = new
              /\ snapshot' = [snapshot EXCEPT !.edited = TRUE]
         ELSE /\ snapshot' = [snapshot EXCEPT !.entries = new, !.edited = TRUE]
              /\ UNCHANGED latest_payloads
    /\ logged' = << >>
    /\ UNCHANGED << running, task, lock, consecutive_failures, has_store, settings,
                    tasks, caller, store_rows, threads, stopped, transformVars,
                    delay, otherVars >>

InitSnapshot ==
    /\ PollerInit
    /\ has_store = FALSE
    /\ settings = DefaultSettings
    /\ TransformIdle
    /\ delay = NotRun
    /\ snapshot = NotRun
    /\ FetcherIdle
    /\ ToolIdle
    /\ PureIdle

NextSnapshot ==
    \/ Start
    \/ Stop
    \/ StopReturns
    \/ \E t \in TaskIds : Cancelled(t)
    \/ \E t \in TaskIds : LoopStep(t)
    \/ \E t \in TaskIds : ScoreboardArrives(t)
    \/ \E t \in TaskIds : ScoreboardReturns(t)
    \/ \E t \in TaskIds : SummaryArrives(t)
    \/ \E t \in TaskIds : SummaryReturns(t)
    \/ ReadLatest
    \/ ReaderEdits

SpecSnapshot == InitSnapshot /\ [][NextSnapshot]_vars

\* every entry of a dict is a whole record of transform_game (the game block
\* with both teams, and the events) under its game id
Complete(d) ==
    \A k \in DOMAIN d :
        /\ DOMAIN d[k] = {"type", "source", "game", "events"}
        /\ d[k].type = "game_update"
        /\ d[k].game.game_id = k
        /\ DOMAIN d[k].game.home_team = {"id", "name", "score", "stats"}
        /\ DOMAIN d[k].game.away_team = {"id", "name", "score", "stats"}

\* C13: the dict returned by latest_payloads is a point-in-time copy: no step
\* of the poller changes its keys or records, no entry the reader adds or
\* removes changes self._latest_payloads, and every value read is a complete
\* record of transform_game
SnapshotIsCopy ==
    /\ [](/\ Complete(latest_payloads)
          /\ (snapshot # NotRun /\ ~snapshot.edited) => Complete(Seen(snapshot)))
    /\ [][(snapshot # NotRun) =>
            IF snapshot'.edited # snapshot.edited
            THEN latest_payloads' = latest_payloads
            ELSE (IF snapshot'.alias THEN latest_payloads' ELSE snapshot'.entries)
                     = Seen(snapshot)]_vars

\* a dict read when one game was stored, emptied by the reader, while a later
\* cycle stored a second game
SnapshotOutdated ==
    /\ snapshot # NotRun
    /\ snapshot.edited
    /\ Seen(snapshot) = EmptyDict
    /\ DOMAIN latest_payloads = {GameA, GameB}

----
\* More properties of the poller (Spec)

\* the ids of the events of a listing whose status is a live status
LiveItemIds(doc) ==
    LET events == Get(doc, "events", << >>)
    IN  {events[i].id :
            i \in {j \in 1..Len(events) :
                     /\ "id" \in DOMAIN events[j]
                     /\ events[j].competitions[1].status.type.name
                            \in settings.live_statuses}}

\* the task ends, in this step, a cycle that started with no record and in
\* which the listing fetch, every detail fetch and every transform succeeded
EndsCleanFirstCycle(t) ==
    /\ InCycle(tasks[t])
    /\ ~InCycle(tasks'[t])
    /\ ~tasks[t].cancel
    /\ ~Pending(tasks[t])
    /\ tasks[t].before.latest = EmptyDict
    /\ IF tasks[t].pc = "listing" THEN ~IsError(tasks[t].response)
       ELSE \A i \in 1..(Len(tasks[t].results) + 1) : ~IsError(AllResults(tasks[t])[i])

\* the listing the task's cycle fetched
ListingOf(rec) == IF rec.pc = "listing" THEN rec.response ELSE rec.scoreboard

\* C14: after a cycle that started with no record and in which every fetch
\* (and transform) succeeded, the keys of the latest records are exactly the
\* ids of the listing's live items
KeysAreLiveItems ==
    [][\A t \in TaskIds :
         EndsCleanFirstCycle(t) =>
             DOMAIN latest_payloads' = LiveItemIds(ListingOf(tasks[t]))]_vars

\* the side list of the item the task is processing has no home or no away entry
MissingSide(rec) ==
    \/ Labelled(SidesOf(SbEvent(rec)), "home") = {}
    \/ Labelled(SidesOf(SbEvent(rec)), "away") = {}

\* the task resumes, in this step, from the detail fetch of an item, with the
\* document
ResumesWithDetail(t) ==
    /\ tasks[t].pc = "detail"
    /\ ~Pending(tasks[t])
    /\ ~IsError(tasks[t].response)
    /\ ~tasks[t].cancel
    /\ tasks'[t] # tasks[t]
    /\ ~tasks'[t].cancel

\* the task goes on, in this step, with the item after the current one, or
\* ends the cycle with the counter at 0 when there is none
GoesOn(t) ==
    IF tasks[t].idx < Len(LiveIds(tasks[t]))
    THEN /\ tasks'[t].pc = "detail"
         /\ tasks'[t].idx = tasks[t].idx + 1
         /\ Pending(tasks'[t])
         /\ consecutive_failures' = consecutive_failures
    ELSE /\ tasks'[t].pc = "sleep"
         /\ consecutive_failures' = 0

\* C15: for an item whose side list has no home or no away entry,
\* transform_game raises and gives no record; in the cycle the failure is
\* the item's: game_failed is logged, the latest records and the counter are
\* left alone (the counter is not incremented), and the cycle goes on with
\* the next item
MissingSideFailsItemOnly ==
    [][\A t \in TaskIds :
         (ResumesWithDetail(t) /\ MissingSide(tasks[t])) =>
             /\ TransformGame(SbEvent(tasks[t]), tasks[t].response, settings)
                    = Raise("ValueError")
             /\ latest_payloads' = latest_payloads
             /\ logged' = << [event |-> "game_failed", game_id |-> GameId(tasks[t]),
                              exc |-> "ValueError"] >>
             /\ GoesOn(t)]_vars

\* the first item had no home side and the cycle is fetching the second
SecondItemAfterMissingSide ==
    /\ logged = << [event |-> "game_failed", game_id |-> GameA, exc |-> "ValueError"] >>
    /\ \E t \in TaskIds :
         /\ tasks[t].pc = "detail"
         /\ tasks[t].idx = 2
         /\ Labelled(SidesOf(EventsById(tasks[t].scoreboard)[GameA]), "home") = {}

----
\* More properties of transform_game (SpecTransform)

\* the first entry of a side list labelled side
FirstLabelled(entries, side) ==
    entries[CHOOSE i \in Labelled(entries, side) :
                \A j \in Labelled(entries, side) : i <= j]

\* the entry has a score field that is a decimal number
HasNumericScore(entry) ==
    /\ "score" \in DOMAIN entry
    /\ entry.score # << >>
    /\ \A i \in 1..Len(entry.score) : entry.score[i] \in DOMAIN Digits

\* C16: when the score field of the home or the away side is missing or not
\* a number, transform_game raises and gives no record; otherwise each
\* side's score is the integer its field spells
ScoreParsedOrFails ==
    (/\ payload # NotRun
     /\ Labelled(SidesOf(scoreboard_event), "home") # {}
     /\ Labelled(SidesOf(scoreboard_event), "away") # {}) =>
        LET home == FirstLabelled(SidesOf(scoreboard_event), "home")
            away == FirstLabelled(SidesOf(scoreboard_event), "away")
        IN  IF HasNumericScore(home) /\ HasNumericScore(away)
            THEN /\ ~IsError(payload)
                 /\ payload.game.home_team.score = DigitsValue(home.score, 0)
                 /\ payload.game.away_team.score = DigitsValue(away.score, 0)
            ELSE IsError(payload)

----
\* More properties of the poller (Spec)

\* the task ends, in this step, a cycle that went through its items
EndsItems(t) ==
    /\ tasks[t].pc \in {"detail", "upsert"}
    /\ ~Pending(tasks[t])
    /\ ~tasks[t].cancel
    /\ ~InCycle(tasks'[t])

\* the i-th item of the cycle the task is ending failed: its detail fetch, its
\* transform or its upsert raised
ItemFailedIn(rec, i) ==
    IF i <= Len(rec.results)
    THEN IsError(rec.results[i].payload) \/ rec.results[i].upsert = "failed"
    ELSE IF rec.pc = "upsert" THEN IsError(rec.response)
    ELSE IsError(LastResult(rec))

\* the entry of a dict under a key (NotRun when it has none)
EntryOf(d, k) == IF k \in DOMAIN d THEN d[k] ELSE NotRun

\* C17: when a cycle ends, the entry of every item whose detail fetch,
\* transform or upsert failed is what it was before the cycle (unchanged or
\* still absent), and the loop goes on to its sleep
FailedItemKeepsEntry ==
    [][\A t \in TaskIds :
         EndsItems(t) =>
             /\ tasks'[t].pc = "sleep"
             /\ \A i \in 1..Len(LiveIds(tasks[t])) :
                  ItemFailedIn(tasks[t], i) =>
                      EntryOf(latest_payloads', LiveIds(tasks[t])[i])
                          = EntryOf(tasks[t].before.latest, LiveIds(tasks[t])[i])]_vars

\* what became of the upsert of the i-th item of the cycle the task is ending
UpsertOf(rec, i) ==
    IF i <= Len(rec.results) THEN rec.results[i].upsert
    ELSE IF rec.pc # "upsert" THEN "none"
    ELSE IF IsError(rec.response) THEN "failed" ELSE "ok"

\* the task resumes, in this step, from an upsert that raised
ResumesWithUpsertError(t) ==
    /\ tasks[t].pc = "upsert"
    /\ ~Pending(tasks[t])
    /\ IsError(tasks[t].response)
    /\ ~tasks[t].cancel
    /\ tasks'[t] # tasks[t]
    /\ ~tasks'[t].cancel

\* C18: an upsert that raises fails its item only: game_failed is logged, the
\* upsert is not made again, the cycle goes on with the next item, and at the
\* end of the cycle the counter is 0 and every item that was transformed had
\* its upsert made
UpsertFailureIsIsolated ==
    [][\A t \in TaskIds :
         /\ ResumesWithUpsertError(t) =>
                /\ logged' = << [event |-> "game_failed", game_id |-> GameId(tasks[t]),
                                 exc |-> tasks[t].response.error] >>
                /\ GoesOn(t)
                /\ UNCHANGED << store_rows, threads, latest_payloads >>
         /\ (/\ EndsItems(t)
             /\ \E i \in 1..Len(LiveIds(tasks[t])) : UpsertOf(tasks[t], i) = "failed") =>
                /\ consecutive_failures' = 0
                /\ Len(AllResults(tasks[t])) = Len(LiveIds(tasks[t]))
                /\ \A j \in 1..Len(LiveIds(tasks[t])) :
                     ~IsError(AllResults(tasks[t])[j]) =>
                         UpsertOf(tasks[t], j) \in {"ok", "failed"}]_vars

\* the upsert of the first item raised and the second item's row is written
SecondItemUpsertedAfterFailure ==
    \E t \in TaskIds :
        /\ tasks[t].pc = "upsert"
        /\ tasks[t].idx = 2
        /\ tasks[t].results[1].upsert = "failed"
        /\ tasks[t].response = [value |-> "written"]
        /\ GameB \in DOMAIN store_rows
        /\ GameA \notin DOMAIN store_rows

\* the task moves, in this step, to another place of its code
Moves(t) == tasks'[t].pc # tasks[t].pc \/ tasks'[t].idx # tasks[t].idx

\* C19: once stop() was called, a cycle in flight exits at its await without
\* processing further items and without touching the latest records, and a
\* loop that was sleeping ends without starting a cycle
StopEndsCycleInFlight ==
    [][\A t \in TaskIds :
         (~running /\ Suspended(tasks[t]) /\ Moves(t)) =>
             /\ tasks'[t].pc = "none"
             /\ latest_payloads' = latest_payloads]_vars

\* C20: while a cycle is at a detail fetch, a transform or an upsert of one of
\* its items (its listing fetch has succeeded), the counter is 0
CounterResetBeforeItems ==
    \A t \in TaskIds : tasks[t].pc \in {"detail", "upsert"} => consecutive_failures = 0

\* C21: a task is at a detail fetch (or past it) only with the listing its
\* cycle fetched, for an item that is one of the listing's live ids; the first
\* detail fetch is issued on resuming from the listing fetch with a document,
\* each next one for the next live id of the same listing, and a listing
\* fetch is issued only on entering a cycle
ListingGatesItems ==
    /\ [](\A t \in TaskIds :
            tasks[t].pc \in {"detail", "upsert"} =>
                /\ tasks[t].scoreboard \in Scoreboards
                /\ tasks[t].idx \in 1..Len(LiveIds(tasks[t]))
                /\ GameId(tasks[t]) \in LiveItemIds(tasks[t].scoreboard))
    /\ [][\A t \in TaskIds :
            /\ (tasks'[t].pc = "detail" /\ Moves(t)) =>
                   \/ /\ tasks[t].pc = "listing"
                      /\ ~Pending(tasks[t])
                      /\ ~IsError(tasks[t].response)
                      /\ tasks'[t].scoreboard = tasks[t].response
                      /\ tasks'[t].idx = 1
                   \/ /\ tasks[t].pc \in {"detail", "upsert"}
                      /\ ~Pending(tasks[t])
                      /\ tasks'[t].scoreboard = tasks[t].scoreboard
                      /\ tasks'[t].idx = tasks[t].idx + 1
            /\ (tasks'[t].pc = "listing" /\ Moves(t)) =>
                   /\ tasks[t].pc \in {"created", "sleep"}
                   /\ Pending(tasks'[t])]_vars

\* the detail of the live game of a listing that also holds a scheduled game
\* is being fetched
OnlyLiveItemFetched ==
    \E t \in TaskIds :
        /\ tasks[t].pc = "detail"
        /\ Len(tasks[t].scoreboard.events) = 2
        /\ LiveItemIds(tasks[t].scoreboard) = {GameA}
        /\ GameId(tasks[t]) = GameA
        /\ EventsById(tasks[t].scoreboard)[GameB].competitions[1].status = Scheduled

\* the delay the claimed formula gives for a failure count
DelayFor(count) ==
    IF count = 0 THEN settings.poll_interval_seconds
    ELSE BackoffFormula(settings, count)

\* the delays of the backoff_delay events of the last step
LoggedDelays ==
    {logged[i].delay : i \in {j \in 1..Len(logged) : logged[j].event = "backoff_delay"}}

\* C22: a cycle starts from a fresh task (no delay) or from its sleep; the
\* sleep after a cycle is _get_delay of the count the cycle left: not shorter
\* than the delay before the cycle when the cycle raised the count, and the
\* poll interval (no backoff) when the cycle left the count at 0
DelayFollowsFailures ==
    [][\A t \in TaskIds :
         /\ (~InCycle(tasks[t]) /\ InCycle(tasks'[t])) =>
                tasks[t].pc \in {"created", "sleep"}
         /\ (InCycle(tasks[t]) /\ tasks'[t].pc = "sleep") =>
                /\ consecutive_failures' = 0 => LoggedDelays' = {}
                /\ consecutive_failures' > 0 =>
                       LoggedDelays' = {DelayFor(consecutive_failures')}
                /\ consecutive_failures' > tasks[t].before.failures =>
                       \A d \in LoggedDelays' : d >= DelayFor(tasks[t].before.failures)]_vars

----
\* More properties of transform_game (SpecTransform)

\* the side list has a home and an away entry whose scores int() accepts
SidesWellFormed(e) ==
    /\ Labelled(SidesOf(e), "home") # {}
    /\ Labelled(SidesOf(e), "away") # {}
    /\ \A side \in {"home", "away"} :
         ~IsError(ParseInt(Get(FirstLabelled(SidesOf(e), side), "score", <<"0">>)))

BoxscoreTeams(summ) == Get(Get(summ, "boxscore", EmptyDict), "teams", << >>)

\* C23: for a detail document without plays (no drives, no segments, or
\* segments without plays) transform_game returns a record with no events,
\* and for a side that no statistics block is labelled with (as in an empty
\* detail document) a record whose stats for that side are empty
EmptyDetailTransforms ==
    (payload # NotRun /\ SidesWellFormed(scoreboard_event)) =>
        /\ ~IsError(payload)
        /\ History(summary) = << >> => payload.events = << >>
        /\ Labelled(BoxscoreTeams(summary), "home") = {} =>
               payload.game.home_team.stats = EmptyDict
        /\ Labelled(BoxscoreTeams(summary), "away") = {} =>
               payload.game.away_team.stats = EmptyDict

\* the empty detail document was transformed
EmptyDetailTransformed ==
    /\ Transformed
    /\ summary = EmptyDict
    /\ payload.events = << >>
    /\ payload.game.home_team.stats = EmptyDict
    /\ payload.game.away_team.stats = EmptyDict

----
\* The _running flag (Spec)

\* C24: the flag changes only in a step of start(), which sets it, or of
\* stop(), which clears it; start() always leaves it set and stop() always
\* leaves it cleared, so no step of a cycle (a failed listing, a failed item,
\* a skipped cycle) changes it; stop() on a poller that was never started
\* returns at once with the flag cleared
RunningOnlyByStartStop ==
    [][/\ running' # running => (Start \/ Stop)
       /\ Start => running'
       /\ Stop => ~running'
       /\ (Stop /\ task = NoTask) => (stopped' /\ caller' = "idle" /\ ~running')]_vars

\* the flag is still set after two failed cycles
RunningAfterFailures ==
    /\ running
    /\ task # NoTask
    /\ tasks[task].pc = "sleep"
    /\ consecutive_failures = 2

----
\* The upsert of a stored record (Spec)

\* the task resumes, in this step, from a detail fetch whose document
\* transform_game accepts
ResumesWithRecord(t) ==
    /\ tasks[t].pc = "detail"
    /\ ~Pending(tasks[t])
    /\ ~tasks[t].cancel
    /\ tasks'[t] # tasks[t]
    /\ ~tasks'[t].cancel
    /\ ~IsError(tasks[t].response)
    /\ ~IsError(TransformGame(SbEvent(tasks[t]), tasks[t].response, settings))

\* C25: an item whose detail fetch and transform succeeded is stored in the
\* latest records and, with a store, upsert_game is called with that very
\* record, once: the call is made in the step that stores the record and in no
\* other, and it is not made again when it has returned; without a store no
\* call is made, no row is written and the record is stored all the same
UpsertOncePerStoredRecord ==
    /\ [](\A t \in TaskIds :
            tasks[t].pc = "upsert" =>
                /\ has_store
                /\ EntryOf(latest_payloads, GameId(tasks[t])) = tasks[t].payload)
    /\ [][\A t \in TaskIds :
            /\ ResumesWithRecord(t) =>
                 /\ EntryOf(latest_payloads', GameId(tasks[t]))
                      = TransformGame(SbEvent(tasks[t]), tasks[t].response, settings)
                 /\ has_store =>
                      /\ tasks'[t].pc = "upsert"
                      /\ Pending(tasks'[t])
                      /\ tasks'[t].idx = tasks[t].idx
                      /\ tasks'[t].payload = EntryOf(latest_payloads', GameId(tasks[t]))
                 /\ ~has_store =>
                      /\ tasks'[t].pc # "upsert"
                      /\ UNCHANGED << store_rows, threads >>
            /\ (tasks'[t].pc = "upsert" /\ tasks[t].pc # "upsert") => ResumesWithRecord(t)
            /\ (tasks[t].pc = "upsert" /\ tasks'[t].pc = "upsert") =>
                 /\ tasks'[t].payload = tasks[t].payload
                 /\ tasks'[t].idx = tasks[t].idx
                 /\ ~Pending(tasks[t]) => ~Pending(tasks'[t])
            /\ store_rows' # store_rows => has_store]_vars

\* the second item's record is stored and its upsert is under way after the
\* first item's upsert returned
SecondUpsertUnderWay ==
    \E t \in TaskIds :
        /\ tasks[t].pc = "upsert"
        /\ Pending(tasks[t])
        /\ tasks[t].idx = 2
        /\ tasks[t].results[1].upsert = "ok"
        /\ latest_payloads[GameId(tasks[t])] = tasks[t].payload

----
\* One call of extract_live_game_ids on a listing document.

\* the events of a listing the call may be given
MaxListing == 3

Halftime == Status("STATUS_HALFTIME", "Halftime")
EndPeriod == Status("STATUS_END_PERIOD", "End of Period")
Final == Status("STATUS_FINAL", "Final")

Competition(status) == [status |-> status, competitors |-> <<HomeKC, AwayPHI>>]

\* events of a listing: live, at halftime, at the end of a period, final,
\* scheduled; without competitions; with a final first competition and a
\* live second one; with a competition that has no status; live without id
ListingEvents ==
    { Event("111", InProgress, <<HomeKC, AwayPHI>>),
      Event("112", Halftime, <<HomeKC, AwayPHI>>),
      Event("113", EndPeriod, <<HomeKC, AwayPHI>>),
      Event("222", Final, <<HomeKC, AwayPHI>>),
      Event("223", Scheduled, <<HomeKC, AwayPHI>>),
      [id |-> "331"],
      [id |-> "332", competitions |-> << >>],
      [id |-> "441", competitions |-> << Competition(Final), Competition(InProgress) >>],
      [id |-> "442", competitions |-> << [competitors |-> <<HomeKC, AwayPHI>>] >>],
      [competitions |-> << Competition(InProgress) >>] }

Listings ==
    {[events |-> e] : e \in SeqUpTo(ListingEvents, MaxListing)} \cup {EmptyDict}

InitExtract ==
    /\ PollerInit
    /\ has_store = FALSE
    /\ settings \in {DefaultSettings,
                     [DefaultSettings EXCEPT !.live_statuses = {"STATUS_IN_PROGRESS"}]}
    /\ TransformIdle
    /\ delay = NotRun
    /\ snapshot = NotRun
    /\ listing \in Listings
    /\ extracted = NotRun
    /\ ToolIdle
    /\ PureIdle

\* fetcher.extract_live_game_ids(listing)
ExtractCall ==
    /\ extracted = NotRun
    /\ extracted' = Extracted(listing)
    /\ UNCHANGED << pollerVars, settings, transformVars, delay, readerVars, listing,
                    toolVars, pureVars >>

NextExtract == ExtractCall

SpecExtract == InitExtract /\ [][NextExtract]_vars

\* the status name of the first competition of an event ("" when it has none)
FirstStatusName(event) ==
    Get(Get(Get(Get(event, "competitions", << >>)[1], "status", EmptyDict),
            "type", EmptyDict), "name", "")

\* the events of a listing that have a competition and whose first
\* competition's status name is a live status, in the order of the listing
LiveEvents(doc, conf) ==
    LET Live(event) ==
            /\ Get(event, "competitions", << >>) # << >>
            /\ FirstStatusName(event) \in conf.live_statuses
    IN  SelectSeq(Get(doc, "events", << >>), Live)

\* C26: extract_live_game_ids returns the list of the ids of the events that
\* have a competition and whose first competition's status name is a live
\* status, in the order of the listing (the empty list for a listing without
\* events)
ExtractReturnsLiveIds ==
    extracted # NotRun =>
        /\ ~IsError(extracted)
        /\ extracted.value =
               [i \in 1..Len(LiveEvents(listing, settings)) |->
                   LiveEvents(listing, settings)[i].id]

----
\* mcp-server/src/tools.py: one call of handle_tool_call.

\* the names of TOOLS
ToolNames ==
    {"get_all_games", "get_game_details", "get_live_games", "get_games_by_status",
     "get_recent_updates", "get_team_stats", "get_play_by_play"}

\* the names and the arguments a call may be given
CalledNames == ToolNames \cup {"unknown_tool"}

CalledArguments ==
    { EmptyDict, [game_id |-> GameA], [game_id |-> GameA, team |-> "home"],
      [status |-> "Final"], [minutes |-> 15], [game_id |-> GameA, limit |-> 5] }

\* what the Supabase library does in a call: create_client returns a client or
\* raises (it rejects the url or the key), and a query's execute() returns
\* rows or raises
Clients ==
    {[create_client |-> c, execute |-> e] :
        c \in {"ok", "SupabaseException"}, e \in {"ok", "Database error"}}

\* json.dumps: the text, as the value it is the JSON text of
Dumps(value) == [json |-> value]

\* arguments[k]: the value, or KeyError, whose str() is the quoted key
Subscript(d, k) == IF k \in DOMAIN d THEN [value |-> d[k]] ELSE Raise("'" \o k \o "'")

\* the query on the client and its arguments
Query(method, args) == [method |-> method, args |-> args]

\* handlers[name](): the query the lambda makes, or the KeyError of a
\* missing argument
Handler(tool, arguments) ==
    LET game_id == Subscript(arguments, "game_id")
        team == Subscript(arguments, "team")
        status == Subscript(arguments, "status")
    IN  CASE tool = "get_all_games" -> Query("fetch_all_games", << >>)
          [] tool = "get_game_details" ->
                IF IsError(game_id) THEN game_id
                ELSE Query("fetch_game_by_id", << game_id.value >>)
          [] tool = "get_live_games" -> Query("fetch_live_games", << >>)
          [] tool = "get_games_by_status" ->
                IF IsError(status) THEN status
                ELSE Query("fetch_games_by_status", << status.value >>)
          [] tool = "get_recent_updates" ->
                Query("fetch_recent_games", << Get(arguments, "minutes", 5) >>)
          [] tool = "get_team_stats" ->
                IF IsError(game_id) THEN game_id
                ELSE IF IsError(team) THEN team
                ELSE Query("fetch_team_stats", << game_id.value, team.value >>)
          [] tool = "get_play_by_play" ->
                IF IsError(game_id) THEN game_id
                ELSE Query("fetch_play_by_play",
                           << game_id.value, Get(arguments, "limit", 10) >>)

\* what a call of handle_tool_call comes to: the string it returns or the
\* exception it raises, and the queries it made on the client
Returned(value, calls) == [outcome |-> "returned", value |-> value, calls |-> calls]
Raised(kind, calls) == [outcome |-> "raised", value |-> kind, calls |-> calls]

\* handle_tool_call(name, arguments, settings)
HandleToolCall(tool, arguments, cl) ==
    IF cl.create_client # "ok" THEN Raised(cl.create_client, << >>)
    ELSE IF tool \notin ToolNames
    THEN Returned(Dumps([error |-> "Unknown tool: " \o tool]), << >>)
    ELSE LET call == Handler(tool, arguments)
         IN  IF IsError(call)
             THEN Returned(Dumps([error |-> call.error, tool |-> tool,
                                  arguments |-> arguments]), << >>)
             ELSE IF cl.execute # "ok"
             THEN Returned(Dumps([error |-> cl.execute, tool |-> tool,
                                  arguments |-> arguments]), << call >>)
             ELSE Returned(Dumps([data |-> call]), << call >>)

InitTool ==
    /\ PollerInit
    /\ has_store = FALSE
    /\ settings = DefaultSettings
    /\ TransformIdle
    /\ delay = NotRun
    /\ snapshot = NotRun
    /\ FetcherIdle
    /\ tool_name \in CalledNames
    /\ tool_arguments \in CalledArguments
    /\ client \in Clients
    /\ client_calls = << >>
    /\ tool_response = NotRun
    /\ PureIdle

\* await handle_tool_call(tool_name, tool_arguments, settings)
ToolCall ==
    /\ tool_response = NotRun
    /\ LET r == HandleToolCall(tool_name, tool_arguments, client)
       IN  /\ tool_response' = [outcome |-> r.outcome, value |-> r.value]
           /\ client_calls' = r.calls
    /\ UNCHANGED << pollerVars, settings, transformVars, delay, readerVars,
                    fetcherVars, pureVars, tool_name, tool_arguments, client >>

NextTool == ToolCall

SpecTool == InitTool /\ [][NextTool]_vars

\* C27: handle_tool_call returns a JSON text and does not raise; for a name
\* that is none of the seven tools the text is {"error": "Unknown tool:
\* <name>"} and no query was made on the client; when the query of the tool
\* raised, the text carries the exception's message as error, the tool name
\* and the arguments
ToolFailuresAreReported ==
    tool_response # NotRun =>
        /\ tool_response.outcome = "returned"
        /\ tool_name \notin ToolNames =>
             /\ tool_response.value = Dumps([error |-> "Unknown tool: " \o tool_name])
             /\ client_calls = << >>
        /\ (client_calls # << >> /\ client.execute # "ok") =>
             tool_response.value =
                 Dumps([error |-> client.execute, tool |-> tool_name,
                        arguments |-> tool_arguments])

----
\* More properties of the events of transform_game (SpecTransform)

\* C28: when the current segment has at most max_recent_plays plays, every
\* one of its plays is among the events of the record, whatever the previous
\* segments hold
CurrentPlaysIncluded ==
    (Transformed /\ Len(CurrentPlays(summary)) <= settings.max_recent_plays) =>
        \A i \in 1..Len(CurrentPlays(summary)) :
            \E j \in 1..Len(payload.events) :
                payload.events[j].event_id = CurrentPlays(summary)[i].id

\* the current segment fills max_recent_plays and previous segments have plays
CurrentFillsEvents ==
    /\ Transformed
    /\ Len(CurrentPlays(summary)) = 2
    /\ settings.max_recent_plays = 2
    /\ Len(PreviousPlays(summary)) >= 2
    /\ \A i \in 1..2 : \E j \in 1..2 :
          payload.events[j].event_id = CurrentPlays(summary)[i].id

----
\* The possession of an event (SpecTransform)

TeamId(entry) == Get(Get(entry, "team", EmptyDict), "id", "")
TeamAbbr(entry) == Get(Get(entry, "team", EmptyDict), "abbreviation", "")

\* the entries of a side list that have an id and an abbreviation
WithIdAndAbbr(sides) ==
    {i \in 1..Len(sides) : TeamId(sides[i]) # "" /\ TeamAbbr(sides[i]) # ""}

\* the side id a play starts with ("" when it records none)
StartId(play) == Get(Get(Get(play, "start", EmptyDict), "team", EmptyDict), "id", "")

\* the play of a history with an id
PlayWithId(h, id) == h[CHOOSE i \in 1..Len(h) : h[i].id = id]

\* C29: the id -> abbreviation map has a key for exactly the ids of the side
\* entries that have both a non-empty id and a non-empty abbreviation, each
\* mapped to the abbreviation of such an entry; the possession of an event is
\* the abbreviation the map has for the side id its play starts with, and ""
\* when the play records no such id or the map has no key for it
PossessionFromSideMap ==
    Transformed =>
        LET sides == SidesOf(scoreboard_event)
            mapping == BuildTeamIdToAbbr(sides, EmptyDict)
        IN  /\ DOMAIN mapping = {TeamId(sides[i]) : i \in WithIdAndAbbr(sides)}
            /\ \A k \in DOMAIN mapping :
                 \E i \in WithIdAndAbbr(sides) :
                     TeamId(sides[i]) = k /\ TeamAbbr(sides[i]) = mapping[k]
            /\ \A j \in 1..Len(payload.events) :
                 LET id == StartId(PlayWithId(History(summary), payload.events[j].event_id))
                 IN  payload.events[j].possession =
                         IF \E i \in WithIdAndAbbr(sides) : TeamId(sides[i]) = id
                         THEN mapping[id] ELSE ""

\* a side list with an entry the map leaves out, and events of every kind:
\* resolved, with no side id, and with a side id the map has no key for
PossessionResolvedAndNot ==
    /\ Transformed
    /\ summary = PossessionSummary
    /\ Cardinality(WithIdAndAbbr(SidesOf(scoreboard_event))) = 1
    /\ payload.events[4].possession = "KC"
    /\ payload.events[5].possession = ""
    /\ payload.events[1].possession = ""
    /\ payload.events[3].possession = ""

----
\* The log events of caught failures (Spec)

\* the task resumes, in this step, from the await of a listing or of an item
Resumes(t, pcs) ==
    /\ tasks[t].pc \in pcs
    /\ ~Pending(tasks[t])
    /\ ~tasks[t].cancel
    /\ tasks'[t] # tasks[t]
    /\ ~tasks'[t].cancel

\* the listing fetch raised, or the code up to the first item did
ListingFailedIn(rec) ==
    IF IsError(rec.response) THEN TRUE
    ELSE IF IsError(Extracted(rec.response)) THEN TRUE
    ELSE Extracted(rec.response).value # << >> /\ IsError(EventsById(rec.response))

\* the events of one kind logged by the step
LoggedNow(kind) == {i \in 1..Len(logged') : logged'[i].event = kind}

\* C30: a step in which the except handler of an item catches a failure (of
\* the detail fetch, the transform or the upsert) logs one game_failed event
\* with the item's id; a step in which the except handler of the cycle
\* catches a failure logs one poll_cycle_failed event with the incremented
\* counter; and the two events are logged by no other step
CaughtFailuresAreLogged ==
    [][\A t \in TaskIds :
         /\ (Resumes(t, {"detail", "upsert"})
               /\ ItemFailedIn(tasks[t], Len(tasks[t].results) + 1)) =>
                /\ Cardinality(LoggedNow("game_failed")) = 1
                /\ \A i \in LoggedNow("game_failed") :
                      logged'[i].game_id = GameId(tasks[t])
                /\ LoggedNow("poll_cycle_failed") = {}
         /\ (Resumes(t, {"listing"}) /\ ListingFailedIn(tasks[t])) =>
                /\ Cardinality(LoggedNow("poll_cycle_failed")) = 1
                /\ \A i \in LoggedNow("poll_cycle_failed") :
                      /\ logged'[i].consecutive_failures = consecutive_failures + 1
                      /\ logged'[i].consecutive_failures = consecutive_failures'
                /\ LoggedNow("game_failed") = {}
         /\ (tasks'[t] # tasks[t] /\ LoggedNow("game_failed") # {}) =>
                /\ Resumes(t, {"detail", "upsert"})
                /\ ItemFailedIn(tasks[t], Len(tasks[t].results) + 1)
         /\ (tasks'[t] # tasks[t] /\ LoggedNow("poll_cycle_failed") # {}) =>
                /\ Resumes(t, {"listing"})
                /\ ListingFailedIn(tasks[t])]_vars

\* the failed upsert of the second item was logged
UpsertFailureLogged ==
    /\ logged # << >>
    /\ logged[1] = [event |-> "game_failed", game_id |-> GameB, exc |-> "APIError"]

----
\* Two calls of transform_game on the same document objects, at any times.

\* the values of datetime.now(UTC) the calls may see
MaxClock == 2

\* a ToonPayload with its timestamp, and without it
Stamped(p, t) ==
    [f \in DOMAIN p \cup {"timestamp"} |-> IF f = "timestamp" THEN t ELSE p[f]]
Unstamped(r) == [f \in DOMAIN r \ {"timestamp"} |-> r[f]]

\* the documents after transform_game(event, summary, settings): the in-place
\* operations of the call are those of _extract_plays, which runs when the
\* team records were built
DocumentsAfter(docs, conf) ==
    IF IsError(TransformGame(docs.event, docs.summary, conf)) THEN docs
    ELSE [docs EXCEPT !.summary = ExtractPlaysEffect(@, conf.max_recent_plays)]

InitPure ==
    /\ PollerInit
    /\ has_store = FALSE
    /\ TransformInputs
    /\ payload = NotRun
    /\ perm_event = NotRun
    /\ perm_summary = NotRun
    /\ perm_payload = NotRun
    /\ delay = NotRun
    /\ snapshot = NotRun
    /\ FetcherIdle
    /\ ToolIdle
    /\ now = 0
    /\ documents = [event |-> scoreboard_event, summary |-> summary]
    /\ pure_calls = << >>

\* the wall clock goes on
Tick ==
    /\ now < MaxClock
    /\ now' = now + 1
    /\ UNCHANGED << pollerVars, settings, transformVars, delay, readerVars,
                    fetcherVars, toolVars, documents, pure_calls >>

\* transform_game(event, summary, settings) on the document objects
TransformAgain ==
    /\ Len(pure_calls) < 2
    /\ LET p == TransformGame(documents.event, documents.summary, settings)
       IN  pure_calls' = Append(pure_calls, IF IsError(p) THEN p ELSE Stamped(p, now))
    /\ documents' = DocumentsAfter(documents, settings)
    /\ UNCHANGED << pollerVars, settings, transformVars, delay, readerVars,
                    fetcherVars, toolVars, now >>

NextPure ==
    \/ Tick
    \/ TransformAgain

SpecPure == InitPure /\ [][NextPure]_vars

----
\* The delay under the default settings (SpecDelay)

\* C32: with the default settings, _get_delay at every failure count k >= 1
\* returns a delay that is at least the delay it returns at count 0
BackoffNotBelowInterval ==
    (delay # NotRun /\ settings = DefaultSettings /\ consecutive_failures >= 1) =>
        /\ ~IsError(delay)
        /\ delay.value >= GetDelay(settings, 0).value

----
\* The keys of the latest records (SpecSnapshot)

\* C33: no step removes a key of the latest records; the record under a key
\* changes only in the step that stores the record transform_game returned
\* for that item (so not when the item is not live any more, when a cycle
\* fails, or in start() and stop()); and the dict a reader is given has every
\* key with its record
KeysAreNeverRemoved ==
    [][/\ \A k \in DOMAIN latest_payloads :
            /\ k \in DOMAIN latest_payloads'
            /\ latest_payloads'[k] # latest_payloads[k] =>
                 \E t \in TaskIds :
                     /\ ResumesWithRecord(t)
                     /\ GameId(tasks[t]) = k
                     /\ latest_payloads'[k] =
                          TransformGame(SbEvent(tasks[t]), tasks[t].response, settings)
       /\ (snapshot = NotRun /\ snapshot' # NotRun) =>
            \A k \in DOMAIN latest_payloads :
                /\ k \in DOMAIN Seen(snapshot')
                /\ Seen(snapshot')[k] = latest_payloads[k]]_vars

\* two records are kept, and read, after a cycle that failed
RecordsKeptAfterFailure ==
    /\ DOMAIN latest_payloads = {GameA, GameB}
    /\ consecutive_failures > 0
    /\ snapshot # NotRun
    /\ ~snapshot.edited
    /\ snapshot.entries = latest_payloads

----
\* The poller with one loop: start() is called only when no loop task is
\* alive, and every step of the loop and of the collaborators is taken in
\* the end.

StartSingle ==
    /\ \A t \in TaskIds : Finished(tasks[t])
    /\ Start

NextSingle ==
    \/ StartSingle
    \/ Stop
    \/ StopReturns
    \/ \E t \in TaskIds : Cancelled(t)
    \/ \E t \in TaskIds : LoopStep(t)
    \/ \E t \in TaskIds : ScoreboardArrives(t)
    \/ \E t \in TaskIds : ScoreboardReturns(t)
    \/ \E t \in TaskIds : SummaryArrives(t)
    \/ \E t \in TaskIds : SummaryReturns(t)
    \/ \E t \in TaskIds : ThreadRuns(t)
    \/ \E t \in TaskIds : UpsertReturns(t)
    \/ OrphanRuns

\* _fetch_summary has returned to a loop that was not cancelled: the state
\* in which SummaryReturns can be taken, and always changes the task
SummaryCanReturn ==
    \E t \in TaskIds :
        /\ tasks[t].pc = "detail"
        /\ ~Pending(tasks[t])
        /\ ~tasks[t].cancel

\* the event loop runs every task that can run, and every request and every
\* worker thread ends; start() and stop() are called or not. The weak
\* fairness of SummaryReturns is written out, with SummaryCanReturn for the
\* states in which the step is enabled
FairSingle ==
    /\ WF_vars(StopReturns)
    /\ WF_vars(\E t \in TaskIds : Cancelled(t))
    /\ WF_vars(\E t \in TaskIds : LoopStep(t))
    /\ WF_vars(\E t \in TaskIds : ScoreboardArrives(t))
    /\ WF_vars(\E t \in TaskIds : ScoreboardReturns(t))
    /\ WF_vars(\E t \in TaskIds : SummaryArrives(t))
    /\ \/ []<>(~SummaryCanReturn)
       \/ []<><<\E t \in TaskIds : SummaryReturns(t)>>_vars
    /\ WF_vars(\E t \in TaskIds : ThreadRuns(t))
    /\ WF_vars(\E t \in TaskIds : UpsertReturns(t))
    /\ WF_vars(OrphanRuns)

SpecSingle == Init /\ [][NextSingle]_vars /\ FairSingle

\* no loop task but the one of self._task is alive
SingleLoop == \A u \in TaskIds \ {task} : Finished(tasks[u])

\* a loop enters _do_poll
CycleBegins ==
    \E t \in TaskIds :
        /\ LoopStep(t)
        /\ tasks'[t].pc = "listing"

----
\* C35: start() and stop() write neither the failure counter nor the latest
\* records: no step of either call changes them, the delay computed from the
\* counter stays the same, and with a single loop they do not change from the
\* call of stop() to the next call of start(), the cancelled cycle's end
\* included
StartStopKeepState ==
    [][(Start \/ Stop \/ StopReturns \/ ~running) =>
          /\ UNCHANGED << consecutive_failures, latest_payloads >>
          /\ GetDelay(settings', consecutive_failures')
                = GetDelay(settings, consecutive_failures)]_vars

\* the poller was stopped and started again, and the new loop, not yet in
\* its first cycle, has the failure count and the record of the loop before
RestartedWithState ==
    /\ running
    /\ task # NoTask
    /\ tasks[task].pc = "created"
    /\ consecutive_failures > 0
    /\ latest_payloads # EmptyDict

----
\* C36: once stop() has returned, and until start() is called again, no row
\* of the store is written: an upsert the cancelled cycle had started does
\* not take effect afterwards
NoWriteAfterStop ==
    [][stopped => store_rows' = store_rows]_vars

----
\* C37: upsert_game is called with a record only after the record was
\* stored in the latest records: while the call is awaited the latest record
\* of the item is the record of the call; a worker thread left behind by a
\* cancelled cycle writes a record that was the latest one of its item when
\* the cycle was cancelled; and a row of the store changes only to the latest
\* record of its item or to the record of such a thread. So every row is a
\* record the latest records hold or have held
LatestBeforeStore ==
    /\ [](\A t \in TaskIds :
            tasks[t].pc = "upsert" =>
                EntryOf(latest_payloads, tasks[t].payload.game.game_id)
                    = tasks[t].payload)
    /\ [][\A p \in threads' \ threads :
            EntryOf(latest_payloads, p.game.game_id) = p]_vars
    /\ [][\A k \in DOMAIN store_rows' :
            EntryOf(store_rows', k) # EntryOf(store_rows, k) =>
                /\ store_rows'[k].game.game_id = k
                /\ \/ store_rows'[k] = EntryOf(latest_payloads, k)
                   \/ store_rows'[k] \in threads]_vars

\* the upsert of a record is awaited, the record being the latest one of its
\* item and its row not yet written, while the worker thread of a cancelled
\* cycle still holds the latest record of its own item
InMemoryBeforeStore ==
    \E t \in TaskIds :
        /\ tasks[t].pc = "upsert"
        /\ Pending(tasks[t])
        /\ latest_payloads[GameId(tasks[t])] = tasks[t].payload
        /\ GameId(tasks[t]) \notin DOMAIN store_rows
        /\ \E p \in threads : latest_payloads[p.game.game_id] = p

====
